---- MODULE Spec2Model ----
(***************************************************************************)
(* EFFI-TRACK: the send-deadline-alerts edge function (the "notifier"),    *)
(* the store it reads and the mail transport it calls (Spec); the Projects *)
(* page of one session (SpecProjects, SpecCreate, SpecFetch), of two       *)
(* concurrent editors (SpecRace) and of an editor next to its readers      *)
(* (SpecWindow); the leaderboard of the Rewards page (SpecRewards), its    *)
(* award form and the Employees page (SpecLedger, SpecForms); the stats    *)
(* and the alerts button of the Dashboard (SpecDashboard, SpecAlerts); the *)
(* AI chat (SpecChat).                                                     *)
(*                                                                         *)
(* Time is counted in ticks; DayTicks ticks make one day (the source's     *)
(* 1000*60*60*24 ms, scaled down).  A project's end_date is a calendar     *)
(* DATE (a day number); a task's deadline is an instant (a tick).          *)
(***************************************************************************)
EXTENDS Integers, Sequences, FiniteSets, TLC

\* ---------------------------------------------------------------- bounds
NumEmployees == 2
NumProjects == 2
NumTasks == 1
MaxAssignments == 2
MaxDay == 5
MaxClock == 4
MaxRuns == 1
MaxFaults == 1
MaxRewards == 3
MaxMessages == 5
MaxAlerts == 2

\* ------------------------------------------------------ program constants
DayTicks == 2
LookaheadDays == 3

Null == 0 - 1

VARIABLES
    \* the store (Dashboard.tsx:145-198, the schema)
    db_employees, db_projects, db_project_assignments, db_tasks,
    \* the wall clock read by every `new Date()`
    clock,
    \* the handler of one request (part_001:9-193)
    pc, resendApiKey, threeDaysFromNow, projects, tasks, emailsSent,
    pidx, employees, eidx, tidx, employee, response,
    \* what the handler did to its collaborators
    nowProjects, nowTasks, storeQueries, resolved, skipped, sendLog,
    \* the reward ledger (Dashboard.tsx:192-198)
    db_reward_points,
    \* the Projects page of every open browser session (part_000:45-229)
    projectsPage,
    \* the Rewards page (Rewards.tsx:40-96)
    rewardsPage,
    \* the Dashboard page (part_002:13-84)
    dashboard,
    \* the Employees page (Employees.tsx:41-145)
    employeesPage,
    \* the AI chat page (AIChat.tsx:20-58)
    aiChat

dbVars == <<db_employees, db_projects, db_project_assignments, db_tasks, db_reward_points>>
pageVars == <<projectsPage, rewardsPage, dashboard, employeesPage, aiChat>>
handlerVars == <<pc, resendApiKey, threeDaysFromNow, projects, tasks, emailsSent,
                 pidx, employees, eidx, tidx, employee, response>>
traceVars == <<nowProjects, nowTasks, storeQueries, resolved, skipped, sendLog>>
notifierVars == <<clock, handlerVars, traceVars>>
vars == <<dbVars, pageVars, notifierVars>>

\* ------------------------------------------------------------- helpers
RECURSIVE Ascending(_)
Ascending(S) ==
    IF S = {} THEN <<>>
    ELSE LET m == CHOOSE x \in S : \A y \in S : x <= y
         IN <<m>> \o Ascending(S \ {m})

Addr(e) == <<"addr", e>>
NoAddr(e) == <<"noaddr", e>>
NameOf(e) == <<"name", e>>

\* the ISO timestamp of instant t cast to the DATE type of projects.end_date
DateOf(t) == t \div DayTicks

\* new Date(project.end_date).getTime(): a DATE parses as midnight UTC
DateInstant(d) == d * DayTicks

\* Math.floor in the place of Math.ceil
CeilDays_Floor(diff) ==
    IF diff >= 0 THEN diff \div DayTicks
    ELSE 0 - ((0 - diff + DayTicks - 1) \div DayTicks)

\* Math.ceil(ms / (1000*60*60*24))
CeilDays(diff) ==
    IF diff >= 0 THEN (diff + DayTicks - 1) \div DayTicks
    ELSE 0 - ((0 - diff) \div DayTicks)

\* `${daysLeft} day${daysLeft !== 1 ? 's' : ''}`
Wording(daysLeft) == IF daysLeft # 1 THEN "days" ELSE "day"

\* the projects filter with .lt in the place of .lte
ProjectSelected_OpenEnd(p, upper, lower) ==
    /\ p.status = "ongoing"
    /\ p.end_date # Null
    /\ p.end_date < DateOf(upper)
    /\ p.end_date >= DateOf(lower)

\* .eq("status","ongoing").lte("end_date", upper).gte("end_date", lower)
ProjectSelected(p, upper, lower) ==
    /\ p.status = "ongoing"
    /\ p.end_date # Null
    /\ p.end_date <= DateOf(upper)
    /\ p.end_date >= DateOf(lower)

\* the tasks filter without its status condition
TaskSelected_AnyStatus(t, upper, lower) ==
    /\ t.deadline # Null
    /\ t.deadline <= upper
    /\ t.deadline >= lower

\* .in("status",["pending","in_progress"]).lte("deadline", upper).gte("deadline", lower)
TaskSelected(t, upper, lower) ==
    /\ t.status \in {"pending", "in_progress"}
    /\ t.deadline # Null
    /\ t.deadline <= upper
    /\ t.deadline >= lower

\* select(`*, project_assignments(employee_id)`)
ProjectRow(id) ==
    [id |-> id, status |-> db_projects[id].status, end_date |-> db_projects[id].end_date,
     project_assignments |->
        Ascending({e \in DOMAIN db_employees : <<id, e>> \in db_project_assignments})]

TaskRow(id) ==
    [id |-> id, status |-> db_tasks[id].status, deadline |-> db_tasks[id].deadline,
     assigned_to |-> db_tasks[id].assigned_to]

\* select("email, name")
EmployeeRow(e) == [email |-> db_employees[e].email, name |-> db_employees[e].name]

ProjectRows(ids) == [i \in 1..Len(ids) |-> ProjectRow(ids[i])]
TaskRows(ids) == [i \in 1..Len(ids) |-> TaskRow(ids[i])]
EmployeeRows(ids) == [i \in 1..Len(ids) |-> EmployeeRow(ids[i])]

\* fetch('https://api.resend.com/emails', ...): resolves with a 2xx response,
\* resolves with an error response, or rejects
SendOutcomes(to) ==
    IF to[1] = "addr" THEN {"ok", "rejected", "thrown"} ELSE {"rejected", "thrown"}

\* the summary counting the projects and tasks that were mailed about
Summary_CountsMailed ==
    [kind |-> "summary", status |-> 200, success |-> TRUE,
     message |-> <<"Sent", Len(emailsSent), "deadline alert emails">>,
     emailsSent |-> emailsSent,
     projectsChecked |-> Cardinality({sendLog[i].item : i \in
                            {j \in 1..Len(sendLog) : sendLog[j].kind = "project"}}),
     tasksChecked |-> Cardinality({sendLog[i].item : i \in
                            {j \in 1..Len(sendLog) : sendLog[j].kind = "task"}})]

\* the success response (lines 170-182)
Summary ==
    [kind |-> "summary", status |-> 200, success |-> TRUE,
     message |-> <<"Sent", Len(emailsSent), "deadline alert emails">>,
     emailsSent |-> emailsSent,
     projectsChecked |-> Len(projects),
     tasksChecked |-> Len(tasks)]

ErrorPayload(msg) == [kind |-> "error", status |-> 500, error |-> msg]

\* ------------------------------------------------------------------ Init
EmployeeKinds(e) ==
    {[name |-> NameOf(e), email |-> Addr(e), status |-> "active"],
     [name |-> NameOf(e), email |-> Addr(e), status |-> "inactive"],
     [name |-> NameOf(e), email |-> NoAddr(e), status |-> "active"]}

EmployeeTables(n) ==
    {f \in [1..n -> UNION {EmployeeKinds(e) : e \in 1..n}] :
        /\ \A e \in 1..n : f[e] \in EmployeeKinds(e)
        /\ \A e \in 2..n : f[e].email = Addr(e) /\ f[e].status = "active"}

Statuses == {"ongoing", "completed"}
TaskStatuses == {"pending", "in_progress", "completed"}
Dates == {Null} \cup (0..MaxDay)
Instants == {Null} \cup (0..(MaxDay * DayTicks + 1))

HandlerInit ==
    /\ pc = "idle"
    /\ resendApiKey = FALSE
    /\ threeDaysFromNow = Null
    /\ projects = <<>>
    /\ tasks = <<>>
    /\ emailsSent = <<>>
    /\ pidx = 1
    /\ employees = <<>>
    /\ eidx = 1
    /\ tidx = 1
    /\ employee = Null
    /\ response = [kind |-> "none"]
    /\ nowProjects = Null
    /\ nowTasks = Null
    /\ storeQueries = 0
    /\ resolved = <<>>
    /\ skipped = <<>>
    /\ sendLog = <<>>

\* the assignment tables that give project p the employees 1..k[p]
AssignmentTables ==
    {{pe \in (1..NumProjects) \X (1..NumEmployees) : pe[2] <= k[pe[1]]} :
        k \in {f \in [1..NumProjects -> 0..NumEmployees] :
                  Cardinality({pe \in (1..NumProjects) \X (1..NumEmployees) :
                                  pe[2] <= f[pe[1]]}) <= MaxAssignments}}

\* a task in the window with any assignee, or a completed one
BatchTaskRows ==
    [status : {"pending"}, deadline : {MaxClock + DayTicks},
     assigned_to : {Null} \cup (1..NumEmployees)]
    \cup [status : {"completed"}, deadline : {MaxClock + DayTicks}, assigned_to : {1}]

\* several items and recipients, all due tomorrow; the first project of
\* either status, the first task of any kind
InitBatch ==
    /\ clock = MaxClock
    /\ db_employees \in EmployeeTables(NumEmployees)
    /\ db_projects \in {f \in [1..NumProjects ->
                              [status : Statuses, end_date : {DateOf(MaxClock) + 1}]] :
                          \A p \in 2..NumProjects : f[p].status = "ongoing"}
    /\ db_project_assignments \in AssignmentTables
    /\ db_tasks \in {f \in [1..NumTasks -> BatchTaskRows] :
                       \A t \in 2..NumTasks : f[t].status = "pending"
                                                /\ f[t].assigned_to \in {Null, 1}}

\* one project of every status and date, at midnight and at midday
InitProjectDates ==
    /\ clock \in DayTicks..(DayTicks + 1)
    /\ db_employees = [e \in 1..1 |-> [name |-> NameOf(e), email |-> Addr(e), status |-> "active"]]
    /\ db_projects \in [1..1 -> [status : Statuses, end_date : Dates]]
    /\ db_project_assignments = {<<1, 1>>}
    /\ db_tasks = [t \in 1..1 |-> [status |-> "completed", deadline |-> Null, assigned_to |-> Null]]

\* one task of every status and deadline
InitTaskDeadlines ==
    /\ clock \in DayTicks..(DayTicks + 1)
    /\ db_employees = [e \in 1..1 |-> [name |-> NameOf(e), email |-> Addr(e), status |-> "active"]]
    /\ db_projects = [p \in 1..1 |-> [status |-> "completed", end_date |-> Null]]
    /\ db_project_assignments = {}
    /\ db_tasks \in [1..1 -> [status : TaskStatuses, deadline : Instants,
                              assigned_to : {Null, 1}]]

\* no page is open and the reward ledger is empty
PagesClosed ==
    /\ db_reward_points = <<>>
    /\ projectsPage = <<>>
    /\ rewardsPage = [open |-> FALSE]
    /\ dashboard = [open |-> FALSE]
    /\ employeesPage = [open |-> FALSE]
    /\ aiChat = [open |-> FALSE]

Init ==
    /\ HandlerInit
    /\ PagesClosed
    /\ \/ InitBatch
       \/ InitProjectDates
       \/ InitTaskDeadlines

\* --------------------------------------------------------------- actions
\* time passes between any two steps of a request
Tick ==
    /\ pc \notin {"idle", "done"}
    /\ clock < MaxClock
    /\ clock' = clock + 1
    /\ UNCHANGED <<dbVars, pageVars, handlerVars, traceVars>>

\* req.method === "OPTIONS"
Preflight ==
    /\ pc = "idle"
    /\ pc' = "done"
    /\ response' = [kind |-> "preflight", status |-> 200]
    /\ UNCHANGED <<dbVars, pageVars, clock, resendApiKey, threeDaysFromNow, projects, tasks,
                   emailsSent, pidx, employees, eidx, tidx, employee, traceVars>>

\* Start without the credential check of line 16
Start_NoKeyCheck ==
    /\ pc = "idle"
    /\ \E key \in BOOLEAN :
          /\ resendApiKey' = key
          /\ pc' = "projects"
          /\ threeDaysFromNow' = clock + LookaheadDays * DayTicks
          /\ UNCHANGED response
    /\ UNCHANGED <<dbVars, pageVars, clock, projects, tasks, emailsSent, pidx, employees,
                   eidx, tidx, employee, traceVars>>

\* the credential check; threeDaysFromNow = new Date() + 3 days
Start ==
    /\ pc = "idle"
    /\ \E key \in BOOLEAN :
          /\ resendApiKey' = key
          /\ IF ~key
             THEN /\ pc' = "done"
                  /\ response' = ErrorPayload("RESEND_API_KEY not configured")
                  /\ UNCHANGED threeDaysFromNow
             ELSE /\ pc' = "projects"
                  /\ threeDaysFromNow' = clock + LookaheadDays * DayTicks
                  /\ UNCHANGED response
    /\ UNCHANGED <<dbVars, pageVars, clock, projects, tasks, emailsSent, pidx, employees,
                   eidx, tidx, employee, traceVars>>

\* QueryProjects looking at projectsError only after the tasks query was made
QueryProjects_CheckLater ==
    /\ pc = "projects"
    /\ nowProjects' = clock
    /\ \E ok \in BOOLEAN :
          IF ok
          THEN /\ projects' = ProjectRows(Ascending({id \in DOMAIN db_projects :
                      ProjectSelected(db_projects[id], threeDaysFromNow, clock)}))
               /\ pc' = "tasks"
               /\ storeQueries' = storeQueries + 1
               /\ UNCHANGED <<response, nowTasks>>
          ELSE /\ pc' = "done"
               /\ storeQueries' = storeQueries + 2
               /\ nowTasks' = clock
               /\ response' = ErrorPayload("projects query failed")
               /\ UNCHANGED projects
    /\ UNCHANGED <<dbVars, pageVars, clock, resendApiKey, threeDaysFromNow, tasks, emailsSent,
                   pidx, employees, eidx, tidx, employee, resolved, skipped, sendLog>>

\* the projects query (lines 28-38); the store answers or reports an error
QueryProjects ==
    /\ pc = "projects"
    /\ storeQueries' = storeQueries + 1
    /\ nowProjects' = clock
    /\ \E ok \in BOOLEAN :
          IF ok
          THEN /\ projects' = ProjectRows(Ascending({id \in DOMAIN db_projects :
                      ProjectSelected(db_projects[id], threeDaysFromNow, clock)}))
               /\ pc' = "tasks"
               /\ UNCHANGED response
          ELSE /\ pc' = "done"
               /\ response' = ErrorPayload("projects query failed")
               /\ UNCHANGED projects
    /\ UNCHANGED <<dbVars, pageVars, clock, resendApiKey, threeDaysFromNow, tasks, emailsSent,
                   pidx, employees, eidx, tidx, employee, nowTasks, resolved, skipped, sendLog>>

\* the tasks query (lines 43-54)
QueryTasks ==
    /\ pc = "tasks"
    /\ storeQueries' = storeQueries + 1
    /\ nowTasks' = clock
    /\ \E ok \in BOOLEAN :
          IF ok
          THEN /\ tasks' = TaskRows(Ascending({id \in DOMAIN db_tasks :
                      TaskSelected(db_tasks[id], threeDaysFromNow, clock)}))
               /\ emailsSent' = <<>>
               /\ pidx' = 1
               /\ pc' = "ploop"
               /\ UNCHANGED response
          ELSE /\ pc' = "done"
               /\ response' = ErrorPayload("tasks query failed")
               /\ UNCHANGED <<tasks, emailsSent, pidx>>
    /\ UNCHANGED <<dbVars, pageVars, clock, resendApiKey, threeDaysFromNow, projects,
                   employees, eidx, tidx, employee, nowProjects, resolved, skipped, sendLog>>

\* the project loop is over (or projects is empty): on to the task loop
ProjectLoopEnd ==
    /\ pc = "ploop"
    /\ pidx > Len(projects)
    /\ pc' = "tloop"
    /\ tidx' = 1
    /\ UNCHANGED <<dbVars, pageVars, clock, resendApiKey, threeDaysFromNow, projects, tasks,
                   emailsSent, pidx, employees, eidx, employee, response, traceVars>>

\* employeeIds.length = 0 (line 79): nothing to do for this project
ProjectNoAssignments ==
    /\ pc = "ploop"
    /\ pidx <= Len(projects)
    /\ Len(projects[pidx].project_assignments) = 0
    /\ pidx' = pidx + 1
    /\ skipped' = Append(skipped, [kind |-> "project", item |-> projects[pidx].id,
                                   why |-> "no_assignments"])
    /\ UNCHANGED <<dbVars, pageVars, clock, pc, resendApiKey, threeDaysFromNow, projects, tasks,
                   emailsSent, employees, eidx, tidx, employee, response,
                   nowProjects, nowTasks, storeQueries, resolved, sendLog>>

\* ProjectLookupEmployees leaving out the employees already in emailsSent
ProjectLookupEmployees_Dedup ==
    /\ pc = "ploop"
    /\ pidx <= Len(projects)
    /\ Len(projects[pidx].project_assignments) > 0
    /\ storeQueries' = storeQueries + 1
    /\ \E ok \in BOOLEAN :
          LET employeeIds == projects[pidx].project_assignments
              all == EmployeeRows(Ascending({e \in DOMAIN db_employees :
                           \E i \in 1..Len(employeeIds) : employeeIds[i] = e}))
              found == SelectSeq(all, LAMBDA r :
                           \A i \in 1..Len(emailsSent) : emailsSent[i] # r.email)
          IN IF ok /\ Len(found) > 0
             THEN /\ employees' = found
                  /\ eidx' = 1
                  /\ pc' = "psend"
                  /\ resolved' = resolved \o
                        [i \in 1..Len(found) |->
                            [kind |-> "project", item |-> projects[pidx].id, to |-> found[i].email]]
                  /\ UNCHANGED <<pidx, skipped>>
             ELSE /\ pidx' = pidx + 1
                  /\ skipped' = IF ok THEN skipped ELSE Append(skipped,
                        [kind |-> "project", item |-> projects[pidx].id,
                         why |-> "lookup_empty"])
                  /\ UNCHANGED <<employees, eidx, pc, resolved>>
    /\ UNCHANGED <<dbVars, pageVars, clock, resendApiKey, threeDaysFromNow, projects, tasks,
                   emailsSent, tidx, employee, response, nowProjects, nowTasks, sendLog>>

\* ProjectLookupEmployees with `if (error) throw error` after the read
ProjectLookupEmployees_Throw ==
    /\ pc = "ploop"
    /\ pidx <= Len(projects)
    /\ Len(projects[pidx].project_assignments) > 0
    /\ storeQueries' = storeQueries + 1
    /\ \E ok \in BOOLEAN :
          LET employeeIds == projects[pidx].project_assignments
              found == EmployeeRows(Ascending({e \in DOMAIN db_employees :
                           \E i \in 1..Len(employeeIds) : employeeIds[i] = e}))
          IN IF ok /\ Len(found) > 0
             THEN /\ employees' = found
                  /\ eidx' = 1
                  /\ pc' = "psend"
                  /\ resolved' = resolved \o
                        [i \in 1..Len(found) |->
                            [kind |-> "project", item |-> projects[pidx].id, to |-> found[i].email]]
                  /\ UNCHANGED <<pidx, skipped, response>>
             ELSE /\ pc' = "done"
                  /\ response' = ErrorPayload("employees query failed")
                  /\ skipped' = Append(skipped,
                        [kind |-> "project", item |-> projects[pidx].id,
                         why |-> "lookup_empty"])
                  /\ UNCHANGED <<employees, eidx, pidx, resolved>>
    /\ UNCHANGED <<dbVars, pageVars, clock, resendApiKey, threeDaysFromNow, projects, tasks,
                   emailsSent, tidx, employee, nowProjects, nowTasks, sendLog>>

\* the employees lookup restricted to the active employees
ProjectLookupEmployees_ActiveOnly ==
    /\ pc = "ploop"
    /\ pidx <= Len(projects)
    /\ Len(projects[pidx].project_assignments) > 0
    /\ storeQueries' = storeQueries + 1
    /\ \E ok \in BOOLEAN :
          LET employeeIds == projects[pidx].project_assignments
              found == EmployeeRows(Ascending({e \in DOMAIN db_employees :
                           /\ db_employees[e].status = "active"
                           /\ \E i \in 1..Len(employeeIds) : employeeIds[i] = e}))
          IN IF ok /\ Len(found) > 0
             THEN /\ employees' = found
                  /\ eidx' = 1
                  /\ pc' = "psend"
                  /\ resolved' = resolved \o
                        [i \in 1..Len(found) |->
                            [kind |-> "project", item |-> projects[pidx].id, to |-> found[i].email]]
                  /\ UNCHANGED <<pidx, skipped>>
             ELSE /\ pidx' = pidx + 1
                  /\ skipped' = Append(skipped,
                        [kind |-> "project", item |-> projects[pidx].id,
                         why |-> "lookup_empty"])
                  /\ UNCHANGED <<employees, eidx, pc, resolved>>
    /\ UNCHANGED <<dbVars, pageVars, clock, resendApiKey, threeDaysFromNow, projects, tasks,
                   emailsSent, tidx, employee, response, nowProjects, nowTasks, sendLog>>

\* from("employees").select("email, name").in("id", employeeIds) (lines 80-85);
\* the error of the read is not looked at: data is null and the project is skipped
ProjectLookupEmployees ==
    /\ pc = "ploop"
    /\ pidx <= Len(projects)
    /\ Len(projects[pidx].project_assignments) > 0
    /\ storeQueries' = storeQueries + 1
    /\ \E ok \in BOOLEAN :
          LET employeeIds == projects[pidx].project_assignments
              found == EmployeeRows(Ascending({e \in DOMAIN db_employees :
                           \E i \in 1..Len(employeeIds) : employeeIds[i] = e}))
          IN IF ok /\ Len(found) > 0
             THEN /\ employees' = found
                  /\ eidx' = 1
                  /\ pc' = "psend"
                  /\ resolved' = resolved \o
                        [i \in 1..Len(found) |->
                            [kind |-> "project", item |-> projects[pidx].id, to |-> found[i].email]]
                  /\ UNCHANGED <<pidx, skipped>>
             ELSE /\ pidx' = pidx + 1
                  /\ skipped' = Append(skipped,
                        [kind |-> "project", item |-> projects[pidx].id,
                         why |-> "lookup_empty"])
                  /\ UNCHANGED <<employees, eidx, pc, resolved>>
    /\ UNCHANGED <<dbVars, pageVars, clock, resendApiKey, threeDaysFromNow, projects, tasks,
                   emailsSent, tidx, employee, response, nowProjects, nowTasks, sendLog>>

\* SendProjectEmail without the try/catch of lines 89-116: a rejected fetch
\* reaches the outer catch
SendProjectEmail_NoCatch ==
    /\ pc = "psend"
    /\ LET project == projects[pidx]
           to == employees[eidx].email
           daysLeft == CeilDays(DateInstant(project.end_date) - clock)
       IN \E outcome \in SendOutcomes(to) :
             /\ sendLog' = Append(sendLog,
                    [kind |-> "project", item |-> project.id, to |-> to,
                     name |-> employees[eidx].name,
                     due |-> DateInstant(project.end_date), at |-> clock,
                     daysLeft |-> daysLeft, wording |-> Wording(daysLeft),
                     outcome |-> outcome])
             /\ IF outcome = "thrown"
                THEN /\ pc' = "done"
                     /\ response' = ErrorPayload("fetch failed")
                     /\ UNCHANGED <<emailsSent, eidx, pidx>>
                ELSE /\ emailsSent' = Append(emailsSent, to)
                     /\ UNCHANGED response
                     /\ IF eidx < Len(employees)
                        THEN /\ eidx' = eidx + 1
                             /\ UNCHANGED <<pc, pidx>>
                        ELSE /\ pidx' = pidx + 1
                             /\ pc' = "ploop"
                             /\ UNCHANGED eidx
    /\ UNCHANGED <<dbVars, pageVars, clock, resendApiKey, threeDaysFromNow, projects, tasks,
                   employees, tidx, employee,
                   nowProjects, nowTasks, storeQueries, resolved, skipped>>

\* one message of the project loop (lines 86-117)
SendProjectEmail ==
    /\ pc = "psend"
    /\ LET project == projects[pidx]
           to == employees[eidx].email
           daysLeft == CeilDays(DateInstant(project.end_date) - clock)
       IN \E outcome \in SendOutcomes(to) :
             /\ sendLog' = Append(sendLog,
                    [kind |-> "project", item |-> project.id, to |-> to,
                     name |-> employees[eidx].name,
                     due |-> DateInstant(project.end_date), at |-> clock,
                     daysLeft |-> daysLeft, wording |-> Wording(daysLeft),
                     outcome |-> outcome])
             /\ emailsSent' = IF outcome = "thrown" THEN emailsSent
                              ELSE Append(emailsSent, to)
    /\ IF eidx < Len(employees)
       THEN /\ eidx' = eidx + 1
            /\ UNCHANGED <<pc, pidx>>
       ELSE /\ pidx' = pidx + 1
            /\ pc' = "ploop"
            /\ UNCHANGED eidx
    /\ UNCHANGED <<dbVars, pageVars, clock, resendApiKey, threeDaysFromNow, projects, tasks,
                   employees, tidx, employee, response,
                   nowProjects, nowTasks, storeQueries, resolved, skipped>>

\* the task loop is over (or tasks is empty): the summary (lines 170-182)
Respond ==
    /\ pc = "tloop"
    /\ tidx > Len(tasks)
    /\ pc' = "done"
    /\ response' = Summary
    /\ UNCHANGED <<dbVars, pageVars, clock, resendApiKey, threeDaysFromNow, projects, tasks,
                   emailsSent, pidx, employees, eidx, tidx, employee, traceVars>>

\* task.assigned_to is null (line 126)
TaskUnassigned ==
    /\ pc = "tloop"
    /\ tidx <= Len(tasks)
    /\ tasks[tidx].assigned_to = Null
    /\ tidx' = tidx + 1
    /\ skipped' = Append(skipped, [kind |-> "task", item |-> tasks[tidx].id,
                                   why |-> "unassigned"])
    /\ UNCHANGED <<dbVars, pageVars, clock, pc, resendApiKey, threeDaysFromNow, projects, tasks,
                   emailsSent, pidx, employees, eidx, employee, response,
                   nowProjects, nowTasks, storeQueries, resolved, sendLog>>

\* TaskLookupEmployee without the `if (employee)` of line 133: reading
\* employee.email of null ends in the outer catch
TaskLookupEmployee_NoNullCheck ==
    /\ pc = "tloop"
    /\ tidx <= Len(tasks)
    /\ tasks[tidx].assigned_to # Null
    /\ storeQueries' = storeQueries + 1
    /\ \E ok \in BOOLEAN :
          IF ok /\ tasks[tidx].assigned_to \in DOMAIN db_employees
          THEN /\ employee' = EmployeeRow(tasks[tidx].assigned_to)
               /\ pc' = "tsend"
               /\ resolved' = Append(resolved,
                     [kind |-> "task", item |-> tasks[tidx].id,
                      to |-> db_employees[tasks[tidx].assigned_to].email])
               /\ UNCHANGED <<tidx, skipped, response>>
          ELSE /\ pc' = "done"
               /\ response' = ErrorPayload("Cannot read properties of null")
               /\ skipped' = Append(skipped,
                     [kind |-> "task", item |-> tasks[tidx].id, why |-> "lookup_empty"])
               /\ UNCHANGED <<employee, tidx, resolved>>
    /\ UNCHANGED <<dbVars, pageVars, clock, resendApiKey, threeDaysFromNow, projects, tasks,
                   emailsSent, pidx, employees, eidx,
                   nowProjects, nowTasks, sendLog>>

\* from("employees").select("email, name").eq("id", task.assigned_to).single()
\* (lines 127-133); on an error data is null and the task is skipped
TaskLookupEmployee ==
    /\ pc = "tloop"
    /\ tidx <= Len(tasks)
    /\ tasks[tidx].assigned_to # Null
    /\ storeQueries' = storeQueries + 1
    /\ \E ok \in BOOLEAN :
          IF ok /\ tasks[tidx].assigned_to \in DOMAIN db_employees
          THEN /\ employee' = EmployeeRow(tasks[tidx].assigned_to)
               /\ pc' = "tsend"
               /\ resolved' = Append(resolved,
                     [kind |-> "task", item |-> tasks[tidx].id,
                      to |-> db_employees[tasks[tidx].assigned_to].email])
               /\ UNCHANGED <<tidx, skipped>>
          ELSE /\ tidx' = tidx + 1
               /\ skipped' = Append(skipped,
                     [kind |-> "task", item |-> tasks[tidx].id, why |-> "lookup_empty"])
               /\ UNCHANGED <<employee, pc, resolved>>
    /\ UNCHANGED <<dbVars, pageVars, clock, resendApiKey, threeDaysFromNow, projects, tasks,
                   emailsSent, pidx, employees, eidx, response,
                   nowProjects, nowTasks, sendLog>>

\* the message of one task (lines 134-164)
SendTaskEmail ==
    /\ pc = "tsend"
    /\ LET task == tasks[tidx]
           to == employee.email
           daysLeft == CeilDays(task.deadline - clock)
       IN \E outcome \in SendOutcomes(to) :
             /\ sendLog' = Append(sendLog,
                    [kind |-> "task", item |-> task.id, to |-> to,
                     name |-> employee.name,
                     due |-> task.deadline, at |-> clock,
                     daysLeft |-> daysLeft, wording |-> Wording(daysLeft),
                     outcome |-> outcome])
             /\ emailsSent' = IF outcome = "thrown" THEN emailsSent
                              ELSE Append(emailsSent, to)
    /\ tidx' = tidx + 1
    /\ pc' = "tloop"
    /\ UNCHANGED <<dbVars, pageVars, clock, resendApiKey, threeDaysFromNow, projects, tasks,
                   pidx, employees, eidx, employee, response,
                   nowProjects, nowTasks, storeQueries, resolved, skipped>>

Next ==
    \/ Tick
    \/ Preflight
    \/ Start
    \/ QueryProjects
    \/ QueryTasks
    \/ ProjectLoopEnd
    \/ ProjectNoAssignments
    \/ ProjectLookupEmployees
    \/ SendProjectEmail
    \/ TaskUnassigned
    \/ TaskLookupEmployee
    \/ SendTaskEmail
    \/ Respond

Spec == Init /\ [][Next]_vars

\* ================================================================ claims
PairOf(m) == [kind |-> m.kind, item |-> m.item, to |-> m.to]
Index(q) == 1..Len(q)
Count(q, P(_)) == Cardinality({i \in Index(q) : P(q[i])})
Answered == pc = "done" /\ response.kind # "preflight"

\* C1: a failed send never stops the batch: the transport's calls are, in
\* order, the (employee, item) pairs the lookups resolved; between two
\* recipient lists none is outstanding, inside a list exactly the recipients
\* not yet reached are, whatever the outcome of the sends before.
C1_EveryPairAttempted ==
    /\ Len(sendLog) <= Len(resolved)
    /\ \A i \in Index(sendLog) : PairOf(sendLog[i]) = resolved[i]
    /\ pc = "psend" => Len(resolved) - Len(sendLog) = Len(employees) - eidx + 1
    /\ pc = "tsend" => Len(resolved) - Len(sendLog) = 1
    /\ pc \notin {"psend", "tsend"} => Len(sendLog) = Len(resolved)

\* a summary after a rejected fetch and an error response, each followed by a later send
C1_Witness ==
    /\ response.kind = "summary"
    /\ \E i, j, k \in Index(sendLog) :
          /\ i < j /\ j < k
          /\ sendLog[i].outcome = "thrown"
          /\ sendLog[j].outcome = "rejected"

\* C2 (as claimed): emailsSent holds an address once per message the
\* transport reported success for, and the count of the message text is the
\* number of successful sends.
C2_OnlySuccessfulSends ==
    response.kind = "summary" =>
        /\ \A i \in Index(sendLog) :
              Count(response.emailsSent, LAMBDA a : a = sendLog[i].to)
                = Count(sendLog, LAMBDA m : m.to = sendLog[i].to /\ m.outcome = "ok")
        /\ response.message[2] = Count(sendLog, LAMBDA m : m.outcome = "ok")

\* C3 (amended): a request with the credential configured whose two
\* selection queries both succeed is answered with the success summary of
\* five fields, also when no email was sent and when employee lookups fail;
\* an error payload is the answer only when the credential is missing or a
\* selection query failed, and then nothing was sent.
C3_SummaryUnlessSelectionFails ==
    Answered =>
        \/ /\ response.kind = "summary"
           /\ resendApiKey
           /\ response.status = 200 /\ response.success
           /\ DOMAIN response = {"kind", "status", "success", "message", "emailsSent",
                                 "projectsChecked", "tasksChecked"}
        \/ /\ response.kind = "error"
           /\ response.status = 500
           /\ sendLog = <<>> /\ resolved = <<>> /\ skipped = <<>>
           /\ \/ ~resendApiKey
              \/ response.error = "projects query failed" /\ storeQueries = 1
              \/ response.error = "tasks query failed" /\ storeQueries = 2

\* a summary of zero emails although a recipient lookup was made (and failed)
C3_Witness ==
    /\ response.kind = "summary"
    /\ response.emailsSent = <<>>
    /\ \E i \in Index(skipped) : skipped[i].why = "lookup_empty"

\* C3 (as claimed): with the credential configured the answer is always the summary.
C3_AlwaysSummary ==
    (Answered /\ resendApiKey) => response.kind = "summary"

\* C4: with RESEND_API_KEY missing the request makes no store query and no
\* send attempt and is answered by the one error payload, status 500.
C4_MissingCredentialIsFatal ==
    (pc # "idle" /\ response.kind # "preflight" /\ ~resendApiKey) =>
        /\ pc = "done"
        /\ response = ErrorPayload("RESEND_API_KEY not configured")
        /\ response.status = 500
        /\ storeQueries = 0
        /\ nowProjects = Null /\ nowTasks = Null
        /\ sendLog = <<>>
        /\ emailsSent = <<>>

\* the credential is missing although the store holds a project that would be selected
C4_Witness ==
    /\ pc = "done"
    /\ response.kind = "error"
    /\ ~resendApiKey
    /\ \E id \in DOMAIN db_projects :
          /\ ProjectSelected(db_projects[id], clock + LookaheadDays * DayTicks, clock)
          /\ \E e \in DOMAIN db_employees : <<id, e>> \in db_project_assignments
\* the clock reading the horizon is computed from (line 25)
InvocationNow == threeDaysFromNow - LookaheadDays * DayTicks
HasRow(rows, id) == \E i \in Index(rows) : rows[i].id = id
IsCeilDays(n, diff) == n * DayTicks >= diff /\ (n - 1) * DayTicks < diff

\* C5 (amended): a project is selected iff its status is ongoing and its
\* end_date, a calendar date, is set, its day has not ended before the clock
\* reading taken when the query is built, and it begins no later than the
\* horizon (the first reading + 3 days): a project dated today is selected
\* although its midnight is before now.
C5_ProjectWindowByDate ==
    pc = "tasks" =>
        /\ \A id \in DOMAIN db_projects :
              HasRow(projects, id) <=>
                 /\ db_projects[id].status = "ongoing"
                 /\ db_projects[id].end_date # Null
                 /\ DateInstant(db_projects[id].end_date) + DayTicks > nowProjects
                 /\ DateInstant(db_projects[id].end_date) <= threeDaysFromNow
        /\ \A i, j \in Index(projects) : projects[i].id = projects[j].id => i = j
        /\ nowProjects >= InvocationNow

\* a project dated today is selected after midnight
C5_Witness ==
    /\ pc = "tasks"
    /\ \E i \in Index(projects) :
          /\ projects[i].end_date = DateOf(nowProjects)
          /\ DateInstant(projects[i].end_date) < InvocationNow

\* C5 (as claimed): selected iff ongoing and the end_date lies in [now, now + 3 days].
C5_ProjectWindowByInstant ==
    pc = "tasks" =>
        \A id \in DOMAIN db_projects :
            HasRow(projects, id) <=>
               /\ db_projects[id].status = "ongoing"
               /\ db_projects[id].end_date # Null
               /\ DateInstant(db_projects[id].end_date) >= InvocationNow
               /\ DateInstant(db_projects[id].end_date) <= InvocationNow + LookaheadDays * DayTicks

TasksRead == pc \in {"ploop", "psend", "tloop", "tsend"} \/ response.kind = "summary"

\* C6 (amended): a task is selected iff its status is pending or in_progress
\* and its deadline lies in [t, h], h the first clock reading + 3 days and t
\* the later reading taken when the task query is built; a completed task
\* is never mailed about, and a task message goes to the task's assigned_to
\* employee, once.
C6_TaskWindowAndRecipient ==
    /\ TasksRead =>
          /\ \A id \in DOMAIN db_tasks :
                HasRow(tasks, id) <=>
                   /\ db_tasks[id].status \in {"pending", "in_progress"}
                   /\ db_tasks[id].deadline # Null
                   /\ db_tasks[id].deadline >= nowTasks
                   /\ db_tasks[id].deadline <= InvocationNow + LookaheadDays * DayTicks
          /\ nowTasks >= InvocationNow
    /\ \A i \in Index(sendLog) :
          sendLog[i].kind = "task" =>
             /\ HasRow(tasks, sendLog[i].item)
             /\ db_tasks[sendLog[i].item].status # "completed"
             /\ db_tasks[sendLog[i].item].assigned_to # Null
             /\ sendLog[i].to = db_employees[db_tasks[sendLog[i].item].assigned_to].email
             /\ \A j \in Index(sendLog) :
                   (sendLog[j].kind = "task" /\ sendLog[j].item = sendLog[i].item) => i = j

\* a message about an in_progress task due exactly at the horizon
C6_Witness ==
    \E i \in Index(sendLog) :
        /\ sendLog[i].kind = "task"
        /\ db_tasks[sendLog[i].item].status = "in_progress"
        /\ sendLog[i].due = threeDaysFromNow

\* C6 (as claimed): selected iff pending or in_progress and the deadline lies
\* in [now, now + 3 days].
C6_TaskWindowOneNow ==
    TasksRead =>
        \A id \in DOMAIN db_tasks :
            HasRow(tasks, id) <=>
               /\ db_tasks[id].status \in {"pending", "in_progress"}
               /\ db_tasks[id].deadline # Null
               /\ db_tasks[id].deadline >= InvocationNow
               /\ db_tasks[id].deadline <= InvocationNow + LookaheadDays * DayTicks

DueOf(m) ==
    IF m.kind = "project" THEN DateInstant(db_projects[m.item].end_date)
    ELSE db_tasks[m.item].deadline

\* C7 (amended): daysLeft of a message is ceil((deadline - t) / 1 day), t the
\* clock reading taken when that message is rendered (not earlier than the
\* readings of the selection); the wording is "day" exactly when daysLeft = 1;
\* due exactly 3 days after t gives 3 and "days", due less than a day after t
\* gives 1 and "day".
C7_DaysLeftAtRender ==
    \A i \in Index(sendLog) :
        LET m == sendLog[i]
        IN /\ m.due = DueOf(m)
           /\ IsCeilDays(m.daysLeft, m.due - m.at)
           /\ m.wording = "day" <=> m.daysLeft = 1
           /\ m.wording \in {"day", "days"}
           /\ m.at >= (IF m.kind = "project" THEN nowProjects ELSE nowTasks)
           /\ m.at >= InvocationNow
           /\ m.due - m.at = 3 * DayTicks => m.daysLeft = 3 /\ m.wording = "days"
           /\ (m.due - m.at > 0 /\ m.due - m.at < DayTicks) =>
                 m.daysLeft = 1 /\ m.wording = "day"

\* a message rendered later than the selection, saying "1 day" where the
\* readings of the selection give 2
C7_Witness ==
    \E i \in Index(sendLog) :
        /\ sendLog[i].at > nowTasks
        /\ sendLog[i].daysLeft = 1
        /\ sendLog[i].wording = "day"
        /\ IsCeilDays(2, sendLog[i].due - nowTasks)

\* C7 (as claimed): daysLeft is ceil((deadline - now) / 1 day) for a now that
\* bounded the selection window.
C7_DaysLeftAtSelection ==
    \A i \in Index(sendLog) :
        \E now \in {InvocationNow, nowProjects, nowTasks} :
            IsCeilDays(sendLog[i].daysLeft, sendLog[i].due - now)

IsSkipped(kind, id) ==
    \E i \in Index(skipped) : skipped[i].kind = kind /\ skipped[i].item = id
Sends(kind, id, to) ==
    Count(sendLog, LAMBDA m : m.kind = kind /\ m.item = id /\ m.to = to)

\* C8: the transport is called once per (employee, item) pair: never twice
\* for a pair, also after a failed send; in an answered request once for each
\* assigned employee of each selected project whose lookup gave rows and once
\* for the employee of each selected task, also for an employee mailed before;
\* emailsSent holds an address once per send that did not throw.
C8_OncePerPair ==
    /\ \A i, j \in Index(sendLog) : PairOf(sendLog[i]) = PairOf(sendLog[j]) => i = j
    /\ \A i \in Index(sendLog) :
          Count(emailsSent, LAMBDA a : a = sendLog[i].to)
            = Count(sendLog, LAMBDA m : m.to = sendLog[i].to /\ m.outcome # "thrown")
    /\ response.kind = "summary" =>
          /\ \A i \in Index(projects) :
                \A k \in Index(projects[i].project_assignments) :
                    Sends("project", projects[i].id,
                          db_employees[projects[i].project_assignments[k]].email)
                      = IF IsSkipped("project", projects[i].id) THEN 0 ELSE 1
          /\ \A i \in Index(tasks) :
                tasks[i].assigned_to # Null =>
                    Sends("task", tasks[i].id, db_employees[tasks[i].assigned_to].email)
                      = IF IsSkipped("task", tasks[i].id) THEN 0 ELSE 1

\* one employee mailed about two projects and twice in emailsSent, after a send that threw
C8_Witness ==
    /\ response.kind = "summary"
    /\ \E i, j \in Index(sendLog) :
          /\ i < j
          /\ sendLog[i].kind = "project" /\ sendLog[j].kind = "project"
          /\ sendLog[i].item # sendLog[j].item
          /\ sendLog[i].to = sendLog[j].to
          /\ Count(response.emailsSent, LAMBDA a : a = sendLog[i].to) = 2
    /\ \E k \in Index(sendLog) : sendLog[k].outcome = "thrown"

\* C9: projectsChecked and tasksChecked are the numbers of rows the two
\* window queries selected, whatever was sent, and the count of the message
\* text is the length of emailsSent; employees 1 and 2 on the one selected
\* project and no selected task give emailsSent = <<1's, 2's address>>, 1, 0.
C9_SummaryCounts ==
    response.kind = "summary" =>
        /\ response.projectsChecked = Cardinality({id \in DOMAIN db_projects :
              ProjectSelected(db_projects[id], threeDaysFromNow, nowProjects)})
        /\ response.tasksChecked = Cardinality({id \in DOMAIN db_tasks :
              TaskSelected(db_tasks[id], threeDaysFromNow, nowTasks)})
        /\ response.message = <<"Sent", Len(response.emailsSent), "deadline alert emails">>
        /\ ( /\ Len(projects) = 1
              /\ projects[1].project_assignments = <<1, 2>>
              /\ Len(tasks) = 0
              /\ Len(sendLog) = 2
              /\ \A i \in Index(sendLog) : sendLog[i].outcome = "ok" )
           => /\ response.emailsSent = <<db_employees[1].email, db_employees[2].email>>
              /\ response.projectsChecked = 1
              /\ response.tasksChecked = 0

\* the end-to-end example: two employees, one selected project, no selected task
C9_Witness ==
    /\ response.kind = "summary"
    /\ response.emailsSent = <<Addr(1), Addr(2)>>
    /\ response.projectsChecked = 1
    /\ response.tasksChecked = 0
    /\ Cardinality(DOMAIN db_projects) > 1

\* C10: a selected project without assignment rows, a selected project or
\* task whose employee lookup gives nothing and a selected task without
\* assigned_to get no message and raise no error: the request goes on and is
\* answered with the summary, every selected item either skipped so or mailed.
C10_NoRecipientsNoError ==
    /\ \A i \in Index(skipped) : \A j \in Index(sendLog) :
          ~(sendLog[j].kind = skipped[i].kind /\ sendLog[j].item = skipped[i].item)
    /\ skipped # <<>> => response.kind \in {"none", "summary"}
    /\ \A i \in Index(projects) :
          (i < pidx /\ Len(projects[i].project_assignments) = 0) =>
              IsSkipped("project", projects[i].id)
    /\ \A i \in Index(tasks) :
          (i < tidx /\ tasks[i].assigned_to = Null) => IsSkipped("task", tasks[i].id)
    /\ (pc = "done" /\ skipped # <<>>) =>
          /\ response.kind = "summary"
          /\ \A i \in Index(projects) :
                \/ IsSkipped("project", projects[i].id)
                \/ \E j \in Index(sendLog) :
                      sendLog[j].kind = "project" /\ sendLog[j].item = projects[i].id
          /\ \A i \in Index(tasks) :
                \/ IsSkipped("task", tasks[i].id)
                \/ \E j \in Index(sendLog) :
                      sendLog[j].kind = "task" /\ sendLog[j].item = tasks[i].id

\* a summary after a project without assignments, a failed lookup and a
\* task without recipient, with a message for an item after a skipped one
C10_Witness ==
    /\ response.kind = "summary"
    /\ \E i, j \in Index(skipped) :
          /\ skipped[i].why = "no_assignments"
          /\ skipped[j].kind = "task"
          /\ \E k \in Index(sendLog) :
                sendLog[k].kind = "project" /\ sendLog[k].item > skipped[i].item
    /\ \E i \in Index(skipped) : skipped[i].why = "lookup_empty"
\* C11 (amended): a failure of the projects or of the tasks selection query
\* aborts the whole request: the answer is the error payload, nothing is
\* dispatched, and after a failed projects query the tasks query is never
\* made.  Only a failed recipient lookup is local to its item: the request
\* still ends with the summary, in which every other selected item is
\* processed.
C11_OnlyLookupFailureIsLocal ==
    /\ (response.kind = "error" /\ resendApiKey) =>
          /\ sendLog = <<>> /\ resolved = <<>> /\ skipped = <<>>
          /\ response.error \in {"projects query failed", "tasks query failed"}
          /\ response.error = "projects query failed" =>
                 nowTasks = Null /\ storeQueries = 1 /\ tasks = <<>>
          /\ response.error = "tasks query failed" => storeQueries = 2
    /\ (\E i \in Index(skipped) : skipped[i].why = "lookup_empty") =>
          /\ response.kind # "error"
          /\ pc = "done" =>
                /\ response.kind = "summary"
                /\ \A i \in Index(projects) :
                      \/ IsSkipped("project", projects[i].id)
                      \/ \E j \in Index(sendLog) : sendLog[j].kind = "project"
                                                   /\ sendLog[j].item = projects[i].id
                /\ \A i \in Index(tasks) :
                      \/ IsSkipped("task", tasks[i].id)
                      \/ \E j \in Index(sendLog) : sendLog[j].kind = "task"
                                                   /\ sendLog[j].item = tasks[i].id

\* a project's lookup failed and a later project and a task were still mailed
C11_Witness ==
    /\ response.kind = "summary"
    /\ \E i \in Index(skipped), j, k \in Index(sendLog) :
          /\ skipped[i].kind = "project" /\ skipped[i].why = "lookup_empty"
          /\ sendLog[j].kind = "project" /\ sendLog[j].item > skipped[i].item
          /\ sendLog[k].kind = "task"

\* C11 (as claimed): when the projects query fails the tasks query still runs
\* and its messages are dispatched: every answered request that made the
\* projects query also made the tasks query.
C11_FailedQueryIsLocal ==
    (Answered /\ nowProjects # Null) => nowTasks # Null

\* the employees stored as assigned to project p, and to task t
AssigneesOfProject(p) == {e \in DOMAIN db_employees : <<p, e>> \in db_project_assignments}
AssigneesOfTask(t) == {e \in DOMAIN db_employees : db_tasks[t].assigned_to = e}

\* C27: every address in emailsSent is the email of an employee whom the
\* store assigns to a project the projects query returned or who is the
\* assigned_to of a task the tasks query returned; and the recipients
\* resolved for a project are all its assigned employees, the inactive ones
\* as well.
C27_RecipientsAreAssignees ==
    /\ \A i \in Index(emailsSent) :
          \E e \in DOMAIN db_employees :
             /\ db_employees[e].email = emailsSent[i]
             /\ \/ \E k \in Index(projects) : e \in AssigneesOfProject(projects[k].id)
                \/ \E k \in Index(tasks) : e \in AssigneesOfTask(tasks[k].id)
    /\ \A j \in Index(resolved) :
          /\ resolved[j].kind = "project" =>
                \A e \in AssigneesOfProject(resolved[j].item) :
                   \E k \in Index(resolved) :
                      resolved[k] = [kind |-> "project", item |-> resolved[j].item,
                                     to |-> db_employees[e].email]
          /\ resolved[j].kind = "task" =>
                \E e \in AssigneesOfTask(resolved[j].item) :
                   resolved[j].to = db_employees[e].email

\* an inactive employee assigned to a selected project was mailed, and the
\* message was accepted
C27_Witness ==
    /\ response.kind = "summary"
    /\ \E e \in DOMAIN db_employees, i \in Index(sendLog) :
          /\ db_employees[e].status = "inactive"
          /\ sendLog[i].kind = "project" /\ sendLog[i].outcome = "ok"
          /\ sendLog[i].to = db_employees[e].email
          /\ \E k \in Index(emailsSent) : emailsSent[k] = db_employees[e].email

\* ======================================================= the Projects page
\* toast({ title, description, variant })
Toast(title, description) == [title |-> title, description |-> description]

\* a request that the store or the network rejects answers { error }
\* { error: null }
NoError == "none"
NetworkError == "Failed to fetch"
DateSyntaxError == "invalid input syntax for type date"
UniqueViolation == "duplicate key value violates unique constraint"

\* { data: null } in the place of a list of rows
NullRows == <<Null>>

NoToast == Toast("", "")

\* the initial formData of useState (lines 52-58)
EmptyForm == [title |-> "", end_date |-> Null, status |-> "ongoing"]

IdleFetch == [pc |-> "idle", rows |-> <<>>, result |-> "none"]
IdleAssign == [pc |-> "idle", project |-> Null, employees |-> <<>>,
               deleted |-> FALSE, result |-> "none"]
IdleSubmit == [pc |-> "idle", project |-> Null, employees |-> <<>>, result |-> "none"]

\* the component's state on mount: the two useEffect fetches are under way
MountedProjectsPage ==
    [projects |-> <<>>, employees |-> <<>>, isDialogOpen |-> FALSE,
     assignDialogOpen |-> FALSE, selectedProject |-> Null, selectedEmployees |-> <<>>,
     formData |-> EmptyForm, toast |-> NoToast,
     fetchEmployees |-> "pending", runs |-> 0, faults |-> 0,
     fetch |-> [IdleFetch EXCEPT !.pc = "projects"],
     assign |-> IdleAssign, submit |-> IdleSubmit]

Sessions == DOMAIN projectsPage

\* what the store may answer to a request of session s: at most MaxFaults
\* requests of a session fail
Answers(s) == IF projectsPage[s].faults < MaxFaults THEN BOOLEAN ELSE {TRUE}
Errors(s) == IF projectsPage[s].faults < MaxFaults THEN {NoError, NetworkError}
             ELSE {NoError}

RECURSIVE Descending(_)
Descending(S) ==
    IF S = {} THEN <<>>
    ELSE LET m == CHOOSE x \in S : \A y \in S : x >= y
         IN <<m>> \o Descending(S \ {m})

SeqSet(q) == {q[i] : i \in 1..Len(q)}

\* rows with .eq("project_id", p)
AssignedTo(p) == {e \in DOMAIN db_employees : <<p, e>> \in db_project_assignments}

\* fetchProjects, the projects read: .from("projects").select("*").order("created_at", desc)
FetchProjectsRead(s) ==
    /\ projectsPage[s].fetch.pc = "projects"
    /\ \E ok \in Answers(s) :
          IF ok
          THEN LET ids == Descending(DOMAIN db_projects)
               IN projectsPage' = [projectsPage EXCEPT ![s].fetch.pc = "each",
                      ![s].fetch.rows = [i \in 1..Len(ids) |->
                          [id |-> ids[i], stage |-> "assignments", assignments |-> NullRows,
                           employeesData |-> NullRows, assignedEmployees |-> NullRows]]]
          ELSE projectsPage' = [projectsPage EXCEPT ![s].fetch.pc = "idle",
                      ![s].fetch.result = "error",
                      ![s].faults = @ + 1,
                      ![s].toast = Toast("Error fetching projects", NetworkError)]
    /\ UNCHANGED <<dbVars, rewardsPage, dashboard, employeesPage, aiChat, notifierVars>>

\* the assignments read of one project (lines 82-85); its error is not looked at
FetchAssignments(s, i) ==
    /\ projectsPage[s].fetch.pc = "each"
    /\ i \in 1..Len(projectsPage[s].fetch.rows)
    /\ projectsPage[s].fetch.rows[i].stage = "assignments"
    /\ \E ok \in Answers(s) :
          LET row == projectsPage[s].fetch.rows[i]
              assignments == IF ok THEN Ascending(AssignedTo(row.id)) ELSE NullRows
          IN projectsPage' = [projectsPage EXCEPT
                 ![s].faults = IF ok THEN @ ELSE @ + 1,
                 ![s].fetch.rows[i] =
                 IF assignments # NullRows /\ Len(assignments) > 0
                 THEN [row EXCEPT !.stage = "employees", !.assignments = assignments]
                 ELSE [row EXCEPT !.stage = "done", !.assignments = assignments,
                                  !.assignedEmployees = <<>>]]
    /\ UNCHANGED <<dbVars, rewardsPage, dashboard, employeesPage, aiChat, notifierVars>>

\* FetchAssignedEmployees without the `|| []` of line 95
FetchAssignedEmployees_NoDefault(s, i) ==
    /\ projectsPage[s].fetch.pc = "each"
    /\ i \in 1..Len(projectsPage[s].fetch.rows)
    /\ projectsPage[s].fetch.rows[i].stage = "employees"
    /\ \E ok \in Answers(s) :
          LET row == projectsPage[s].fetch.rows[i]
              employeesData == IF ok
                               THEN Ascending(SeqSet(row.assignments) \cap DOMAIN db_employees)
                               ELSE NullRows
          IN projectsPage' = [projectsPage EXCEPT
                 ![s].faults = IF ok THEN @ ELSE @ + 1,
                 ![s].fetch.rows[i] =
                 [row EXCEPT !.stage = "done", !.employeesData = employeesData,
                             !.assignedEmployees = employeesData]]
    /\ UNCHANGED <<dbVars, rewardsPage, dashboard, employeesPage, aiChat, notifierVars>>

\* the employees read of one project: .in("id", employeeIds) (lines 88-96)
FetchAssignedEmployees(s, i) ==
    /\ projectsPage[s].fetch.pc = "each"
    /\ i \in 1..Len(projectsPage[s].fetch.rows)
    /\ projectsPage[s].fetch.rows[i].stage = "employees"
    /\ \E ok \in Answers(s) :
          LET row == projectsPage[s].fetch.rows[i]
              employeesData == IF ok
                               THEN Ascending(SeqSet(row.assignments) \cap DOMAIN db_employees)
                               ELSE NullRows
          IN projectsPage' = [projectsPage EXCEPT
                 ![s].faults = IF ok THEN @ ELSE @ + 1,
                 ![s].fetch.rows[i] =
                 [row EXCEPT !.stage = "done", !.employeesData = employeesData,
                             !.assignedEmployees =
                                 IF employeesData # NullRows THEN employeesData ELSE <<>>]]
    /\ UNCHANGED <<dbVars, rewardsPage, dashboard, employeesPage, aiChat, notifierVars>>

\* Promise.all resolved: setProjects(projectsWithEmployees)
FetchProjectsDone(s) ==
    /\ projectsPage[s].fetch.pc = "each"
    /\ \A i \in 1..Len(projectsPage[s].fetch.rows) :
          projectsPage[s].fetch.rows[i].stage = "done"
    /\ projectsPage' = [projectsPage EXCEPT
           ![s].fetch.pc = "idle",
           ![s].fetch.result = "ok",
           ![s].projects = [i \in 1..Len(projectsPage[s].fetch.rows) |->
               [id |-> projectsPage[s].fetch.rows[i].id,
                assignedEmployees |-> projectsPage[s].fetch.rows[i].assignedEmployees]]]
    /\ UNCHANGED <<dbVars, rewardsPage, dashboard, employeesPage, aiChat, notifierVars>>

\* fetchEmployees (lines 105-121): the active employees, ordered by name
FetchEmployees(s) ==
    /\ projectsPage[s].fetchEmployees = "pending"
    /\ \E ok \in Answers(s) :
          IF ok
          THEN projectsPage' = [projectsPage EXCEPT ![s].fetchEmployees = "idle",
                   ![s].employees = Ascending({e \in DOMAIN db_employees :
                                                  db_employees[e].status = "active"})]
          ELSE projectsPage' = [projectsPage EXCEPT ![s].fetchEmployees = "idle",
                   ![s].faults = @ + 1,
                   ![s].toast = Toast("Error fetching employees", NetworkError)]
    /\ UNCHANGED <<dbVars, rewardsPage, dashboard, employeesPage, aiChat, notifierVars>>

\* no request of this session is under way: the user waits for the outcome
\* of one operation before starting the next
Settled(s) ==
    /\ projectsPage[s].fetchEmployees = "idle"
    /\ projectsPage[s].fetch.pc = "idle"
    /\ projectsPage[s].assign.pc = "idle"
    /\ projectsPage[s].submit.pc = "idle"

\* what the page keeps of the last operation (its toast, its outcome) is gone
\* when the user acts again
Acted(page) ==
    [page EXCEPT !.toast = NoToast, !.fetch = IdleFetch, !.assign = IdleAssign,
                 !.submit = IdleSubmit]

\* the dialogs are modal: a card's button or the trigger is reachable only
\* while neither is open
NoDialog(s) == ~projectsPage[s].isDialogOpen /\ ~projectsPage[s].assignDialogOpen

\* openAssignDialog(project) (lines 175-179)
OpenAssignDialog(s, i) ==
    /\ NoDialog(s) /\ Settled(s)
    /\ i \in 1..Len(projectsPage[s].projects)
    /\ projectsPage' = [projectsPage EXCEPT ![s] = [Acted(@) EXCEPT
           !.selectedProject = projectsPage[s].projects[i].id,
           !.selectedEmployees = projectsPage[s].projects[i].assignedEmployees,
           !.assignDialogOpen = TRUE]]
    /\ UNCHANGED <<dbVars, rewardsPage, dashboard, employeesPage, aiChat, notifierVars>>

\* toggleEmployee(employeeId) (lines 223-229), from a checkbox of either dialog
ToggleEmployee(s, e) ==
    /\ ~NoDialog(s) /\ Settled(s)
    /\ e \in SeqSet(projectsPage[s].employees)
    /\ LET prev == projectsPage[s].selectedEmployees
       IN projectsPage' = [projectsPage EXCEPT ![s] = [Acted(@) EXCEPT
              !.selectedEmployees =
                  IF e \in SeqSet(prev) THEN SelectSeq(prev, LAMBDA id : id # e)
                  ELSE Append(prev, e)]]
    /\ UNCHANGED <<dbVars, rewardsPage, dashboard, employeesPage, aiChat, notifierVars>>

\* Cancel, or the dialog's onOpenChange(false) (lines 425, 469)
CancelAssign(s) ==
    /\ projectsPage[s].assignDialogOpen /\ Settled(s)
    /\ projectsPage' = [projectsPage EXCEPT ![s] =
           [Acted(@) EXCEPT !.assignDialogOpen = FALSE]]
    /\ UNCHANGED <<dbVars, rewardsPage, dashboard, employeesPage, aiChat, notifierVars>>

\* the dialog trigger: onOpenChange(true) (line 240)
OpenCreateDialog(s) ==
    /\ NoDialog(s) /\ Settled(s)
    /\ projectsPage' = [projectsPage EXCEPT ![s] =
           [Acted(@) EXCEPT !.isDialogOpen = TRUE]]
    /\ UNCHANGED <<dbVars, rewardsPage, dashboard, employeesPage, aiChat, notifierVars>>

\* onOpenChange(false) of the create dialog
CloseCreateDialog(s) ==
    /\ projectsPage[s].isDialogOpen /\ Settled(s)
    /\ projectsPage' = [projectsPage EXCEPT ![s] =
           [Acted(@) EXCEPT !.isDialogOpen = FALSE]]
    /\ UNCHANGED <<dbVars, rewardsPage, dashboard, employeesPage, aiChat, notifierVars>>

\* the form's inputs: setFormData({ ...formData, ... }) (lines 259-300); the
\* end date is the one input that may stay empty
SetFormData(s) ==
    /\ projectsPage[s].isDialogOpen /\ Settled(s)
    /\ \E d \in {Null, MaxDay} :
          /\ projectsPage[s].formData # [title |-> "T", end_date |-> d, status |-> "ongoing"]
          /\ projectsPage' = [projectsPage EXCEPT ![s] = [Acted(@) EXCEPT
                 !.formData = [title |-> "T", end_date |-> d, status |-> "ongoing"]]]
    /\ UNCHANGED <<dbVars, rewardsPage, dashboard, employeesPage, aiChat, notifierVars>>

\* handleSubmit up to its first await: .from("projects").insert([formData])
\* (lines 123-133); the store casts end_date to DATE
SubmitInsertProject(s) ==
    /\ projectsPage[s].isDialogOpen /\ Settled(s)
    /\ projectsPage[s].formData.title # ""
    /\ projectsPage[s].runs < MaxRuns
    /\ Len(db_projects) < NumProjects
    /\ \E error \in IF projectsPage[s].formData.end_date = Null
                    THEN {DateSyntaxError} ELSE Errors(s) :
          IF error = NoError
          THEN /\ db_projects' = Append(db_projects,
                      [status |-> projectsPage[s].formData.status,
                       end_date |-> projectsPage[s].formData.end_date])
               /\ projectsPage' = [projectsPage EXCEPT ![s] = [Acted(@) EXCEPT
                      !.runs = @ + 1,
                      !.submit = [pc |-> "assignments", project |-> Len(db_projects) + 1,
                                  employees |-> projectsPage[s].selectedEmployees,
                                  result |-> "pending"]]]
          ELSE /\ projectsPage' = [projectsPage EXCEPT ![s] = [Acted(@) EXCEPT
                      !.runs = @ + 1,
                      !.faults = IF error = NetworkError THEN @ + 1 ELSE @,
                      !.submit = [IdleSubmit EXCEPT !.result = "error"],
                      !.toast = Toast("Error", error)]]
               /\ UNCHANGED db_projects
    /\ UNCHANGED <<db_employees, db_project_assignments, db_tasks, db_reward_points,
                   rewardsPage, dashboard, employeesPage, aiChat, notifierVars>>

\* handleSubmit after the project insert (lines 135-172): the assignment
\* insert when employees are selected, then the success path or the catch
SubmitInsertAssignments(s) ==
    /\ projectsPage[s].submit.pc = "assignments"
    /\ LET run == projectsPage[s].submit
           rows == {<<run.project, e>> : e \in SeqSet(run.employees)}
       IN \E assignError \in IF Len(run.employees) > 0 THEN Errors(s)
                                                       ELSE {NoError} :
             IF assignError = NoError
             THEN /\ db_project_assignments' = db_project_assignments \cup rows
                  /\ projectsPage' = [projectsPage EXCEPT
                         ![s].submit = [run EXCEPT !.pc = "idle", !.result = "success"],
                         ![s].toast = Toast("Project created successfully",
                                            IF Len(run.employees) > 0
                                            THEN "Assigned to employee(s)" ELSE ""),
                         ![s].isDialogOpen = FALSE,
                         ![s].formData = EmptyForm,
                         ![s].selectedEmployees = <<>>,
                         ![s].fetch = [IdleFetch EXCEPT !.pc = "projects"]]
             ELSE /\ projectsPage' = [projectsPage EXCEPT
                         ![s].faults = @ + 1,
                         ![s].submit = [run EXCEPT !.pc = "idle", !.result = "error"],
                         ![s].toast = Toast("Error", assignError)]
                  /\ UNCHANGED db_project_assignments
    /\ UNCHANGED <<db_employees, db_projects, db_tasks, db_reward_points,
                   rewardsPage, dashboard, employeesPage, aiChat, notifierVars>>

\* handleAssignEmployees up to its first await (lines 181-188): the delete of
\* the project's rows; what the store answers is not looked at
AssignDelete(s) ==
    /\ projectsPage[s].assignDialogOpen /\ Settled(s)
    /\ projectsPage[s].selectedProject # Null
    /\ projectsPage[s].runs < MaxRuns
    /\ \E ok \in Answers(s) :
          /\ db_project_assignments' =
                IF ok THEN {pe \in db_project_assignments :
                               pe[1] # projectsPage[s].selectedProject}
                ELSE db_project_assignments
          /\ projectsPage' = [projectsPage EXCEPT ![s] = [Acted(@) EXCEPT
                 !.runs = @ + 1,
                 !.faults = IF ok THEN @ ELSE @ + 1,
                 !.assign = [pc |-> "insert", project |-> projectsPage[s].selectedProject,
                             employees |-> projectsPage[s].selectedEmployees,
                             deleted |-> ok, result |-> "pending"]]]
    /\ UNCHANGED <<db_employees, db_projects, db_tasks, db_reward_points,
                   rewardsPage, dashboard, employeesPage, aiChat, notifierVars>>

\* handleAssignEmployees after the delete (lines 190-220): the insert of one
\* row per selected employee, then the success path or the catch
AssignInsert(s) ==
    /\ projectsPage[s].assign.pc = "insert"
    /\ LET run == projectsPage[s].assign
           rows == {<<run.project, e>> : e \in SeqSet(run.employees)}
       IN \E error \in IF Len(run.employees) = 0 THEN {NoError}
                       ELSE IF rows \cap db_project_assignments # {}
                            THEN {UniqueViolation}
                            ELSE Errors(s) :
             IF error = NoError
             THEN /\ db_project_assignments' = db_project_assignments \cup rows
                  /\ projectsPage' = [projectsPage EXCEPT
                         ![s].assign = [run EXCEPT !.pc = "idle", !.result = "success"],
                         ![s].toast = Toast("Employees assigned successfully",
                                            "employee(s) assigned to project"),
                         ![s].assignDialogOpen = FALSE,
                         ![s].selectedProject = Null,
                         ![s].selectedEmployees = <<>>,
                         ![s].fetch = [IdleFetch EXCEPT !.pc = "projects"]]
             ELSE /\ projectsPage' = [projectsPage EXCEPT
                         ![s].faults = IF error = NetworkError THEN @ + 1 ELSE @,
                         ![s].assign = [run EXCEPT !.pc = "idle", !.result = "error"],
                         ![s].toast = Toast("Error assigning employees", error)]
                  /\ UNCHANGED db_project_assignments
    /\ UNCHANGED <<db_employees, db_projects, db_tasks, db_reward_points,
                   rewardsPage, dashboard, employeesPage, aiChat, notifierVars>>

\* the store under the pages: every employee with an address, the last one
\* active or not; projects 1..n, each with the employees 1..k assigned
PageStore(n) ==
    /\ clock = 0
    /\ db_employees \in {f \in EmployeeTables(NumEmployees) : f[1].email = Addr(1)}
    /\ db_projects = [p \in 1..n |-> [status |-> "ongoing", end_date |-> MaxDay]]
    /\ db_project_assignments \in {t \in AssignmentTables : \A pe \in t : pe[1] <= n}
    /\ db_tasks = [t \in 1..1 |-> [status |-> "completed", deadline |-> Null,
                                   assigned_to |-> Null]]
    /\ db_reward_points = <<>>

\* one session has just opened the Projects page
InitProjects ==
    /\ HandlerInit
    /\ PageStore(NumProjects - 1)
    /\ projectsPage = [s \in 1..1 |-> MountedProjectsPage]
    /\ rewardsPage = [open |-> FALSE]
    /\ dashboard = [open |-> FALSE]
    /\ employeesPage = [open |-> FALSE]
    /\ aiChat = [open |-> FALSE]

NextProjects ==
    \/ \E s \in Sessions : FetchProjectsRead(s)
    \/ \E s \in Sessions, i \in 1..NumProjects : FetchAssignments(s, i)
    \/ \E s \in Sessions, i \in 1..NumProjects : FetchAssignedEmployees(s, i)
    \/ \E s \in Sessions : FetchProjectsDone(s)
    \/ \E s \in Sessions : FetchEmployees(s)
    \/ \E s \in Sessions, i \in 1..NumProjects : OpenAssignDialog(s, i)
    \/ \E s \in Sessions, e \in 1..NumEmployees : ToggleEmployee(s, e)
    \/ \E s \in Sessions : CancelAssign(s)
    \/ \E s \in Sessions : OpenCreateDialog(s)
    \/ \E s \in Sessions : CloseCreateDialog(s)
    \/ \E s \in Sessions : SetFormData(s)
    \/ \E s \in Sessions : SubmitInsertProject(s)
    \/ \E s \in Sessions : SubmitInsertAssignments(s)
    \/ \E s \in Sessions : AssignDelete(s)
    \/ \E s \in Sessions : AssignInsert(s)

SpecProjects == InitProjects /\ [][NextProjects]_vars

\* the operator never dismisses the create dialog: it closes when a project
\* has been created
NextCreate ==
    \/ \E s \in Sessions : FetchProjectsRead(s)
    \/ \E s \in Sessions, i \in 1..NumProjects : FetchAssignments(s, i)
    \/ \E s \in Sessions, i \in 1..NumProjects : FetchAssignedEmployees(s, i)
    \/ \E s \in Sessions : FetchProjectsDone(s)
    \/ \E s \in Sessions : FetchEmployees(s)
    \/ \E s \in Sessions, i \in 1..NumProjects : OpenAssignDialog(s, i)
    \/ \E s \in Sessions, e \in 1..NumEmployees : ToggleEmployee(s, e)
    \/ \E s \in Sessions : CancelAssign(s)
    \/ \E s \in Sessions : OpenCreateDialog(s)
    \/ \E s \in Sessions : SetFormData(s)
    \/ \E s \in Sessions : SubmitInsertProject(s)
    \/ \E s \in Sessions : SubmitInsertAssignments(s)
    \/ \E s \in Sessions : AssignDelete(s)
    \/ \E s \in Sessions : AssignInsert(s)

SpecCreate == InitProjects /\ [][NextCreate]_vars

\* one session has just opened the Projects page; nothing but its fetches run
InitFetch ==
    /\ HandlerInit
    /\ PageStore(NumProjects)
    /\ projectsPage = [s \in 1..1 |-> MountedProjectsPage]
    /\ rewardsPage = [open |-> FALSE]
    /\ dashboard = [open |-> FALSE]
    /\ employeesPage = [open |-> FALSE]
    /\ aiChat = [open |-> FALSE]

NextFetch ==
    \/ \E s \in Sessions : FetchProjectsRead(s)
    \/ \E s \in Sessions, i \in 1..NumProjects : FetchAssignments(s, i)
    \/ \E s \in Sessions, i \in 1..NumProjects : FetchAssignedEmployees(s, i)
    \/ \E s \in Sessions : FetchProjectsDone(s)
    \/ \E s \in Sessions : FetchEmployees(s)

SpecFetch == InitFetch /\ [][NextFetch]_vars

\* the page of a session once its two fetches on mount have succeeded
LoadedProjectsPage ==
    [MountedProjectsPage EXCEPT
        !.fetchEmployees = "idle",
        !.fetch = IdleFetch,
        !.employees = Ascending({e \in DOMAIN db_employees :
                                    db_employees[e].status = "active"}),
        !.projects = [i \in 1..Len(db_projects) |->
            [id |-> Descending(DOMAIN db_projects)[i],
             assignedEmployees |->
                 Ascending(AssignedTo(Descending(DOMAIN db_projects)[i]))]]]

\* two editors have the Projects page open on the same store
InitRace ==
    /\ HandlerInit
    /\ PageStore(NumProjects - 1)
    /\ projectsPage = [s \in 1..2 |-> LoadedProjectsPage]
    /\ rewardsPage = [open |-> FALSE]
    /\ dashboard = [open |-> FALSE]
    /\ employeesPage = [open |-> FALSE]
    /\ aiChat = [open |-> FALSE]

NextRace ==
    \/ \E s \in Sessions, i \in 1..NumProjects : OpenAssignDialog(s, i)
    \/ \E s \in Sessions, e \in 1..NumEmployees : ToggleEmployee(s, e)
    \/ \E s \in Sessions : AssignDelete(s)
    \/ \E s \in Sessions : AssignInsert(s)

SpecRace == InitRace /\ [][NextRace]_vars

\* an editor with the page loaded, a second session that has just opened
\* the page, and the notifier; project 1 is due tomorrow and has assignees
InitWindow ==
    /\ HandlerInit
    /\ clock = 0
    /\ db_employees \in {f \in EmployeeTables(NumEmployees) : f[1].email = Addr(1)}
    /\ db_projects = [p \in 1..1 |-> [status |-> "ongoing", end_date |-> 1]]
    /\ db_project_assignments \in {{<<1, e>> : e \in 1..k} : k \in 1..NumEmployees}
    /\ db_tasks = [t \in 1..1 |-> [status |-> "completed", deadline |-> Null,
                                   assigned_to |-> Null]]
    /\ db_reward_points = <<>>
    /\ projectsPage = [s \in 1..2 |-> IF s = 1 THEN LoadedProjectsPage
                                      ELSE MountedProjectsPage]
    /\ rewardsPage = [open |-> FALSE]
    /\ dashboard = [open |-> FALSE]
    /\ employeesPage = [open |-> FALSE]
    /\ aiChat = [open |-> FALSE]

\* the editor saves assignments while the other session and the notifier read
NextWindow ==
    \/ \E i \in 1..NumProjects : OpenAssignDialog(1, i)
    \/ \E e \in 1..NumEmployees : ToggleEmployee(1, e)
    \/ AssignDelete(1)
    \/ AssignInsert(1)
    \/ \E s \in Sessions : FetchProjectsRead(s)
    \/ \E s \in Sessions, i \in 1..NumProjects : FetchAssignments(s, i)
    \/ \E s \in Sessions, i \in 1..NumProjects : FetchAssignedEmployees(s, i)
    \/ \E s \in Sessions : FetchProjectsDone(s)
    \/ \E s \in Sessions : FetchEmployees(s)
    \/ Start
    \/ QueryProjects
    \/ QueryTasks
    \/ ProjectLoopEnd
    \/ ProjectNoAssignments
    \/ ProjectLookupEmployees
    \/ SendProjectEmail
    \/ Respond

SpecWindow == InitWindow /\ [][NextWindow]_vars

\* ------------------------------------------------- claims on the Projects page
RowsOfProject(table, p) == {pe \in table : pe[1] = p}
OtherRows(table, p) == {pe \in table : pe[1] # p}
Selected(run) == {<<run.project, e>> : e \in SeqSet(run.employees)}

\* C12 (as claimed): when handleAssignEmployees reports success for project p
\* and selection S, the stored rows of p are exactly one row per id of S,
\* whatever the store answered to the delete, and no step of the operation
\* changes the rows of another project.
C12_ReplaceOnSuccess ==
    [][\A s \in Sessions :
          LET run == projectsPage[s].assign
              run2 == projectsPage'[s].assign
          IN /\ (run.pc = "insert" /\ run2.result = "success") =>
                    RowsOfProject(db_project_assignments', run.project) = Selected(run)
             /\ (run.pc = "insert" /\ run2.pc = "idle") =>
                    OtherRows(db_project_assignments', run.project) =
                    OtherRows(db_project_assignments, run.project)
             /\ (run.pc = "idle" /\ run2.pc = "insert") =>
                    OtherRows(db_project_assignments', run2.project) =
                    OtherRows(db_project_assignments, run2.project)]_vars

\* C13 (as claimed): after handleAssignEmployees with an empty selection has
\* reported success, the list that fetchProjects then shows has no assignee
\* for that project, whatever the store answered to the delete.
C13_EmptySelectionShowsNone ==
    \A s \in Sessions :
       LET page == projectsPage[s]
       IN (/\ page.assign.result = "success"
           /\ page.assign.employees = <<>>
           /\ page.fetch.pc = "idle"
           /\ page.fetch.result = "ok") =>
              \A i \in 1..Len(page.projects) :
                 page.projects[i].id = page.assign.project =>
                    page.projects[i].assignedEmployees = <<>>

Finished(run) == run.pc = "idle" /\ run.result \in {"success", "error"}

\* C14 (as claimed): two editors run handleAssignEmployees on the same
\* project with the selections A and B and the store fails no request: once
\* both have finished, neither was shown an error and the stored set is
\* exactly A or exactly B.
C14_OneWriterWins ==
    \A s1, s2 \in Sessions :
       LET a == projectsPage[s1].assign
           b == projectsPage[s2].assign
       IN (/\ s1 # s2
           /\ Finished(a) /\ Finished(b)
           /\ a.project = b.project
           /\ projectsPage[s1].faults = 0 /\ projectsPage[s2].faults = 0) =>
              /\ a.result = "success" /\ b.result = "success"
              /\ RowsOfProject(db_project_assignments, a.project)
                    \in {Selected(a), Selected(b)}

\* some handleAssignEmployees with a selection is between its delete and its
\* insert for project p
InWindow(p) ==
    \E s \in Sessions : /\ projectsPage[s].assign.pc = "insert"
                        /\ projectsPage[s].assign.project = p
                        /\ projectsPage[s].assign.employees # <<>>

\* C23 (as claimed): while handleAssignEmployees for project p with a
\* non-empty selection is between its delete and its insert, p has no
\* assignment row; an assignments read of fetchProjects answered in that
\* window gives p no assignee, and a projects query of the notifier answered
\* in that window gives p no assignment, so that the invocation mails
\* nobody about p.
C23_EmptyWindow ==
    /\ [](\A p \in DOMAIN db_projects :
             InWindow(p) => RowsOfProject(db_project_assignments, p) = {})
    /\ [][\A r \in Sessions : \A i \in 1..Len(projectsPage[r].fetch.rows) :
             LET row == projectsPage[r].fetch.rows[i]
                 read == projectsPage'[r].fetch.rows[i]
             IN (/\ projectsPage[r].fetch.pc = "each"
                 /\ row.stage = "assignments" /\ read.stage # "assignments"
                 /\ projectsPage'[r].faults = projectsPage[r].faults
                 /\ InWindow(row.id)) =>
                   read.assignments = <<>> /\ read.assignedEmployees = <<>>]_vars
    /\ [][(pc = "projects" /\ pc' = "tasks") =>
             \A k \in 1..Len(projects') :
                InWindow(projects'[k].id) => projects'[k].project_assignments = <<>>]_vars
    /\ [](\A j \in 1..Len(sendLog) : \A k \in 1..Len(projects) :
             (sendLog[j].kind = "project" /\ sendLog[j].item = projects[k].id) =>
                projects[k].project_assignments # <<>>)

\* the list holds no id twice
Distinct(q) == \A i, j \in 1..Len(q) : q[i] = q[j] => i = j

\* C24 (as claimed): with a single editor creating projects and saving
\* assignments, the selection never holds an id twice and no bulk insert
\* carries a (project_id, employee_id) pair that is already stored, so the
\* uniqueness constraint is never violated.
C24_NoDuplicatePairs ==
    \A s \in Sessions :
       LET page == projectsPage[s]
       IN /\ Distinct(page.selectedEmployees)
          /\ Distinct(page.assign.employees) /\ Distinct(page.submit.employees)
          /\ page.assign.pc = "insert" =>
                Selected(page.assign) \cap db_project_assignments = {}
          /\ page.submit.pc = "assignments" =>
                Selected(page.submit) \cap db_project_assignments = {}
          /\ page.toast.description # UniqueViolation

\* the assignees that the page of session s shows for project p, as last fetched
ShownAssignees(s, p) ==
    LET at == {i \in 1..Len(projectsPage[s].projects) : projectsPage[s].projects[i].id = p}
    IN IF at = {} THEN <<>>
       ELSE projectsPage[s].projects[CHOOSE i \in at : TRUE].assignedEmployees

\* C29 (as claimed): a save of the assign dialog whose selection is the one
\* openAssignDialog took from the fetched list (no checkbox was toggled, the
\* inactive assignees included) that reports success leaves the stored rows
\* of the project equal to that fetched set, whatever another editor stored
\* for the project after the fetch.
C29_SaveKeepsFetchedSet ==
    [][\A s \in Sessions :
          LET run == projectsPage[s].assign
          IN (/\ run.pc = "insert"
              /\ projectsPage'[s].assign.result = "success"
              /\ run.employees = ShownAssignees(s, run.project)) =>
                 RowsOfProject(db_project_assignments', run.project) = Selected(run)]_vars

\* C26 (as claimed): whatever was done in the assign dialog before, the
\* create dialog opens with an empty selection, and a project that
\* handleSubmit has created has one assignment row for every employee
\* selected in the create dialog and no other.
C26_CreateStartsEmpty ==
    [][\A s \in Sessions :
          LET page == projectsPage[s]
              after == projectsPage'[s]
          IN /\ (~page.isDialogOpen /\ after.isDialogOpen) =>
                   after.selectedEmployees = <<>>
             /\ (page.submit.pc = "assignments" /\ after.submit.result = "success") =>
                   RowsOfProject(db_project_assignments', page.submit.project) =
                      {<<page.submit.project, e>> : e \in SeqSet(page.selectedEmployees)}
      ]_vars

\* what the catch of handleSubmit shows when the project insert itself fails
ProjectInsertFailureToasts == {Toast("Error", e) : e \in {DateSyntaxError, NetworkError}}

\* C15 (as claimed): when handleSubmit's project insert succeeds and its
\* assignment insert fails, the project row stays in the store with no
\* assignment row, and the toast shown is none of the toasts shown when the
\* project insert itself fails.
C15_PartialFailureIsTold ==
    \A s \in Sessions :
       LET run == projectsPage[s].submit
       IN (run.pc = "idle" /\ run.result = "error" /\ run.project # Null) =>
             /\ run.project \in DOMAIN db_projects
             /\ RowsOfProject(db_project_assignments, run.project) = {}
             /\ projectsPage[s].toast \notin ProjectInsertFailureToasts

\* C16: every project that fetchProjects returns carries a list of assigned
\* employees, never null: the empty list when the project has no assignment
\* row, when the assignments read returned nothing and when the employees
\* read returned nothing, and the rows of the employees read otherwise.
C16_AssigneesAlwaysAList ==
    \A s \in Sessions :
       LET page == projectsPage[s]
       IN /\ \A i \in 1..Len(page.projects) :
                page.projects[i].assignedEmployees # NullRows
          /\ \A i \in 1..Len(page.fetch.rows) :
                LET row == page.fetch.rows[i]
                IN row.stage = "done" =>
                      /\ row.assignedEmployees # NullRows
                      /\ (row.assignments = NullRows \/ row.assignments = <<>>
                            \/ row.employeesData = NullRows) =>
                               row.assignedEmployees = <<>>
                      /\ (row.assignments # NullRows /\ row.assignments # <<>>
                            /\ row.employeesData # NullRows) =>
                               row.assignedEmployees = row.employeesData
          /\ page.fetch.result = "ok" =>
                /\ Len(page.projects) = Len(page.fetch.rows)
                /\ \A i \in 1..Len(page.projects) :
                      page.projects[i].assignedEmployees =
                         page.fetch.rows[i].assignedEmployees

\* the list is shown with [] for a project whose employees read returned
\* nothing, next to a project without assignment rows
C16_Witness ==
    \E s \in Sessions :
       LET page == projectsPage[s]
       IN /\ page.fetch.result = "ok"
          /\ \E i, j \in 1..Len(page.fetch.rows) :
                /\ page.fetch.rows[i].assignments # NullRows
                /\ page.fetch.rows[i].assignments # <<>>
                /\ page.fetch.rows[i].employeesData = NullRows
                /\ page.projects[i].assignedEmployees = <<>>
                /\ page.fetch.rows[j].assignments = <<>>
                /\ page.projects[j].assignedEmployees = <<>>

\* ========================================================= the Rewards page
\* points.reduce((sum, p) => sum + p.points, 0)
RECURSIVE SumPoints(_)
SumPoints(points) ==
    IF Len(points) = 0 THEN 0 ELSE Head(points) + SumPoints(Tail(points))

\* .from("reward_points").select("points").eq("employee_id", emp.id)
PointsOf(e) ==
    LET rows == SelectSeq(db_reward_points, LAMBDA r : r.employee_id = e)
    IN [k \in 1..Len(rows) |-> rows[k].points]

\* .from("tasks").select("id").eq("assigned_to", emp.id).eq("status", "completed")
CompletedTasksOf(e) ==
    Ascending({t \in DOMAIN db_tasks : db_tasks[t].assigned_to = e
                                       /\ db_tasks[t].status = "completed"})

\* the sort with ties in reverse order
RECURSIVE SortByPoints_Unstable(_)
SortByPoints_Unstable(rows) ==
    IF Len(rows) = 0 THEN <<>>
    ELSE LET rest == SortByPoints_Unstable(SubSeq(rows, 1, Len(rows) - 1))
             x == rows[Len(rows)]
             before == SelectSeq(rest, LAMBDA r : r.totalPoints > x.totalPoints)
             after == SelectSeq(rest, LAMBDA r : r.totalPoints <= x.totalPoints)
         IN before \o <<x>> \o after

\* employeeData.sort((a, b) => b.totalPoints - a.totalPoints): Array.prototype.sort
\* is stable, rows of equal totalPoints keep their order
RECURSIVE SortByPoints(_)
SortByPoints(rows) ==
    IF Len(rows) = 0 THEN <<>>
    ELSE LET rest == SortByPoints(SubSeq(rows, 1, Len(rows) - 1))
             x == rows[Len(rows)]
             before == SelectSeq(rest, LAMBDA r : r.totalPoints >= x.totalPoints)
             after == SelectSeq(rest, LAMBDA r : r.totalPoints < x.totalPoints)
         IN before \o <<x>> \o after

\* the component's state on mount: fetchEmployeePoints is under way
\* the initial formData of useState (lines 44-48); the text of the points
\* input is its sequence of decimal digits
EmptyAward == [employee_id |-> Null, points |-> <<>>, reason |-> ""]

MountedRewardsPage ==
    [open |-> TRUE, employeePoints |-> <<>>, faults |-> 0,
     fetch |-> [pc |-> "employees", employees |-> <<>>, rows |-> <<>>, result |-> "none"],
     employees |-> <<>>, fetchEmployees |-> "pending", isDialogOpen |-> FALSE,
     formData |-> EmptyAward, toast |-> NoToast, runs |-> 0, submit |-> "none"]

RewardsAnswers == IF rewardsPage.faults < MaxFaults THEN BOOLEAN ELSE {TRUE}

\* the orders in which a read without ORDER BY may return the employees
EmployeeOrders ==
    {q \in [1..Cardinality(DOMAIN db_employees) -> DOMAIN db_employees] :
        \A i, j \in DOMAIN q : i # j => q[i] # q[j]}

\* the employees read restricted to the active employees
RewardsReadEmployees_ActiveOnly ==
    /\ rewardsPage.open /\ rewardsPage.fetch.pc = "employees"
    /\ \E ok \in RewardsAnswers, order \in EmployeeOrders :
          IF ok
          THEN LET employeeRows == SelectSeq(order,
                                    LAMBDA e : db_employees[e].status = "active")
               IN rewardsPage' = [rewardsPage EXCEPT !.fetch.pc = "each",
                      !.fetch.employees = employeeRows,
                      !.fetch.rows = [i \in 1..Len(employeeRows) |->
                          [id |-> employeeRows[i], stage |-> "points", points |-> NullRows,
                           totalPoints |-> 0, tasks |-> NullRows, completedTasks |-> 0]]]
          ELSE rewardsPage' = [rewardsPage EXCEPT !.fetch.pc = "idle",
                      !.fetch.result = "error", !.faults = @ + 1]
    /\ UNCHANGED <<dbVars, projectsPage, dashboard, employeesPage, aiChat, notifierVars>>

\* fetchEmployeePoints, the employees read: .from("employees").select("id, name");
\* `if (!employees) return` (lines 55-62)
RewardsReadEmployees ==
    /\ rewardsPage.open /\ rewardsPage.fetch.pc = "employees"
    /\ \E ok \in RewardsAnswers, order \in EmployeeOrders :
          IF ok
          THEN LET employeeRows == order
               IN rewardsPage' = [rewardsPage EXCEPT !.fetch.pc = "each",
                      !.fetch.employees = employeeRows,
                      !.fetch.rows = [i \in 1..Len(employeeRows) |->
                          [id |-> employeeRows[i], stage |-> "points", points |-> NullRows,
                           totalPoints |-> 0, tasks |-> NullRows, completedTasks |-> 0]]]
          ELSE rewardsPage' = [rewardsPage EXCEPT !.fetch.pc = "idle",
                      !.fetch.result = "error", !.faults = @ + 1]
    /\ UNCHANGED <<dbVars, projectsPage, dashboard, employeesPage, aiChat, notifierVars>>

\* the points read of one employee and its total (lines 66-71)
RewardsReadPoints(i) ==
    /\ rewardsPage.open /\ rewardsPage.fetch.pc = "each"
    /\ i \in 1..Len(rewardsPage.fetch.rows)
    /\ rewardsPage.fetch.rows[i].stage = "points"
    /\ \E ok \in RewardsAnswers :
          LET row == rewardsPage.fetch.rows[i]
              points == IF ok THEN PointsOf(row.id) ELSE NullRows
          IN rewardsPage' = [rewardsPage EXCEPT
                 !.faults = IF ok THEN @ ELSE @ + 1,
                 !.fetch.rows[i] = [row EXCEPT !.stage = "tasks", !.points = points,
                     !.totalPoints = IF points # NullRows THEN SumPoints(points) ELSE 0]]
    /\ UNCHANGED <<dbVars, projectsPage, dashboard, employeesPage, aiChat, notifierVars>>

\* the completed-tasks read of one employee and its count (lines 73-85)
RewardsReadTasks(i) ==
    /\ rewardsPage.open /\ rewardsPage.fetch.pc = "each"
    /\ i \in 1..Len(rewardsPage.fetch.rows)
    /\ rewardsPage.fetch.rows[i].stage = "tasks"
    /\ \E ok \in RewardsAnswers :
          LET row == rewardsPage.fetch.rows[i]
              tasksData == IF ok THEN CompletedTasksOf(row.id) ELSE NullRows
          IN rewardsPage' = [rewardsPage EXCEPT
                 !.faults = IF ok THEN @ ELSE @ + 1,
                 !.fetch.rows[i] = [row EXCEPT !.stage = "done", !.tasks = tasksData,
                     !.completedTasks = IF tasksData # NullRows THEN Len(tasksData) ELSE 0]]
    /\ UNCHANGED <<dbVars, projectsPage, dashboard, employeesPage, aiChat, notifierVars>>

\* Promise.all resolved: sort and setEmployeePoints (lines 88-92)
RewardsSort ==
    /\ rewardsPage.open /\ rewardsPage.fetch.pc = "each"
    /\ \A i \in 1..Len(rewardsPage.fetch.rows) : rewardsPage.fetch.rows[i].stage = "done"
    /\ LET employeeData == [i \in 1..Len(rewardsPage.fetch.rows) |->
               [id |-> rewardsPage.fetch.rows[i].id,
                totalPoints |-> rewardsPage.fetch.rows[i].totalPoints,
                completedTasks |-> rewardsPage.fetch.rows[i].completedTasks]]
       IN rewardsPage' = [rewardsPage EXCEPT !.fetch.pc = "idle", !.fetch.result = "ok",
              !.employeePoints = SortByPoints(employeeData)]
    /\ UNCHANGED <<dbVars, projectsPage, dashboard, employeesPage, aiChat, notifierVars>>

\* fetchEmployees (lines 98-104): the active employees of the select;
\* setEmployees(data || [])
RewardsFetchEmployees ==
    /\ rewardsPage.open /\ rewardsPage.fetchEmployees = "pending"
    /\ \E ok \in RewardsAnswers :
          rewardsPage' = [rewardsPage EXCEPT !.fetchEmployees = "idle",
              !.faults = IF ok THEN @ ELSE @ + 1,
              !.employees = IF ok THEN Ascending({e \in DOMAIN db_employees :
                                                     db_employees[e].status = "active"})
                            ELSE <<>>]
    /\ UNCHANGED <<dbVars, projectsPage, dashboard, employeesPage, aiChat, notifierVars>>

\* no request of the page is under way
RewardsSettled ==
    /\ rewardsPage.open
    /\ rewardsPage.fetchEmployees = "idle"
    /\ rewardsPage.fetch.pc = "idle"

\* the dialog trigger and the dialog's onOpenChange (line 158)
SetAwardDialogOpen ==
    /\ RewardsSettled
    /\ rewardsPage' = [rewardsPage EXCEPT !.isDialogOpen = ~@, !.toast = NoToast,
                                          !.submit = "none"]
    /\ UNCHANGED <<dbVars, projectsPage, dashboard, employeesPage, aiChat, notifierVars>>

\* the inputs of the award form (lines 177-216): an employee of the select,
\* a number of one digit, a reason
AwardForms ==
    [employee_id : SeqSet(rewardsPage.employees), points : {<<1>>, <<2>>},
     reason : {"well done"}]

SetAwardForm ==
    /\ RewardsSettled /\ rewardsPage.isDialogOpen
    /\ \E form \in AwardForms :
          /\ form # rewardsPage.formData
          /\ rewardsPage' = [rewardsPage EXCEPT !.formData = form, !.toast = NoToast,
                                                !.submit = "none"]
    /\ UNCHANGED <<dbVars, projectsPage, dashboard, employeesPage, aiChat, notifierVars>>

\* parseInt of a text of decimal digits
RECURSIVE ParseInt(_)
ParseInt(digits) ==
    IF Len(digits) = 0 THEN 0
    ELSE 10 * ParseInt(SubSeq(digits, 1, Len(digits) - 1)) + digits[Len(digits)]

\* handleSubmit of the award form with the row inserted whatever the store answers
AwardSubmit_InsertOnError ==
    /\ RewardsSettled /\ rewardsPage.isDialogOpen
    /\ rewardsPage.formData.employee_id # Null
    /\ rewardsPage.formData.points # <<>>
    /\ rewardsPage.formData.reason # ""
    /\ rewardsPage.runs < MaxRuns
    /\ Len(db_reward_points) < MaxRewards
    /\ \E error \in IF rewardsPage.faults < MaxFaults THEN {NoError, NetworkError}
                    ELSE {NoError} :
          /\ db_reward_points' = Append(db_reward_points,
                    [employee_id |-> rewardsPage.formData.employee_id,
                     points |-> ParseInt(rewardsPage.formData.points),
                     reason |-> rewardsPage.formData.reason])
          /\ IF error = NoError
             THEN rewardsPage' = [rewardsPage EXCEPT
                      !.runs = @ + 1, !.submit = "success",
                      !.toast = Toast("Points awarded successfully", ""),
                      !.isDialogOpen = FALSE,
                      !.formData = EmptyAward,
                      !.fetch = [pc |-> "employees", employees |-> <<>>, rows |-> <<>>,
                                 result |-> "none"]]
             ELSE rewardsPage' = [rewardsPage EXCEPT
                      !.runs = @ + 1, !.submit = "error",
                      !.faults = @ + 1,
                      !.toast = Toast("Error", error)]
    /\ UNCHANGED <<db_employees, db_projects, db_project_assignments, db_tasks,
                   projectsPage, dashboard, employeesPage, aiChat, notifierVars>>

\* handleSubmit of the award form (lines 106-138): the insert of one row,
\* then the success path with its fetchEmployeePoints, or the catch
AwardSubmit ==
    /\ RewardsSettled /\ rewardsPage.isDialogOpen
    /\ rewardsPage.formData.employee_id # Null
    /\ rewardsPage.formData.points # <<>>
    /\ rewardsPage.formData.reason # ""
    /\ rewardsPage.runs < MaxRuns
    /\ Len(db_reward_points) < MaxRewards
    /\ \E error \in IF rewardsPage.faults < MaxFaults THEN {NoError, NetworkError}
                    ELSE {NoError} :
          IF error = NoError
          THEN /\ db_reward_points' = Append(db_reward_points,
                      [employee_id |-> rewardsPage.formData.employee_id,
                       points |-> ParseInt(rewardsPage.formData.points),
                       reason |-> rewardsPage.formData.reason])
               /\ rewardsPage' = [rewardsPage EXCEPT
                      !.runs = @ + 1, !.submit = "success",
                      !.toast = Toast("Points awarded successfully", ""),
                      !.isDialogOpen = FALSE,
                      !.formData = EmptyAward,
                      !.fetch = [pc |-> "employees", employees |-> <<>>, rows |-> <<>>,
                                 result |-> "none"]]
          ELSE /\ rewardsPage' = [rewardsPage EXCEPT
                      !.runs = @ + 1, !.submit = "error",
                      !.faults = @ + 1,
                      !.toast = Toast("Error", error)]
               /\ UNCHANGED db_reward_points
    /\ UNCHANGED <<db_employees, db_projects, db_project_assignments, db_tasks,
                   projectsPage, dashboard, employeesPage, aiChat, notifierVars>>

\* the row at place k of the ledger carries 2 points when it is the first
\* one and 1 point otherwise
RewardRow(e, k) ==
    [employee_id |-> e, points |-> IF k = 1 THEN 2 ELSE 1, reason |-> "earlier"]

Ledgers ==
    UNION {{[k \in 1..n |-> RewardRow(f[k], k)] : f \in [1..n -> 1..NumEmployees]} :
              n \in 0..MaxRewards}

RewardTaskRows ==
    [status : {"completed"}, deadline : {Null}, assigned_to : {Null} \cup (1..NumEmployees)]
    \cup [status : {"pending"}, deadline : {Null}, assigned_to : {1}]

\* the Rewards page has just been opened: any ledger over one completed
\* task, or any tasks over an empty ledger
InitRewards ==
    /\ HandlerInit
    /\ clock = 0
    /\ db_employees \in {f \in EmployeeTables(NumEmployees) : f[1].email = Addr(1)}
    /\ db_projects = <<>>
    /\ db_project_assignments = {}
    /\ \/ /\ db_reward_points \in Ledgers
          /\ db_tasks = [t \in 1..1 |-> [status |-> "completed", deadline |-> Null,
                                         assigned_to |-> 1]]
       \/ /\ db_reward_points = <<>>
          /\ db_tasks \in [1..NumTasks -> RewardTaskRows]
    /\ projectsPage = <<>>
    /\ rewardsPage = MountedRewardsPage
    /\ dashboard = [open |-> FALSE]
    /\ employeesPage = [open |-> FALSE]
    /\ aiChat = [open |-> FALSE]

NextRewards ==
    \/ RewardsReadEmployees
    \/ \E i \in 1..NumEmployees : RewardsReadPoints(i)
    \/ \E i \in 1..NumEmployees : RewardsReadTasks(i)
    \/ RewardsSort

SpecRewards == InitRewards /\ [][NextRewards]_vars

\* -------------------------------------------------- claims on the Rewards page
\* the sum of the points of the ledger rows 1..k of employee e
RECURSIVE LedgerTotal(_, _)
LedgerTotal(e, k) ==
    IF k = 0 THEN 0
    ELSE LedgerTotal(e, k - 1)
         + (IF db_reward_points[k].employee_id = e THEN db_reward_points[k].points ELSE 0)

CompletedCount(e) ==
    Cardinality({t \in DOMAIN db_tasks : db_tasks[t].assigned_to = e
                                         /\ db_tasks[t].status = "completed"})

Shown(e) == {i \in 1..Len(rewardsPage.employeePoints) : rewardsPage.employeePoints[i].id = e}

LeaderboardDone == rewardsPage.fetch.pc = "idle" /\ rewardsPage.fetch.result = "ok"

\* C17 (amended): when its employees read succeeds, fetchEmployeePoints
\* returns exactly one row for every employee, active or not; the row's
\* totalPoints is the sum of the employee's ledger rows (0 without rows) when
\* the employee's points read succeeds and 0 when it fails, and its
\* completedTasks is the number of completed tasks assigned to the employee
\* when the tasks read succeeds and 0 when it fails.  When the employees
\* read fails no row is returned.
C17_RowPerEmployeeRead ==
    /\ (rewardsPage.fetch.pc = "idle" /\ rewardsPage.fetch.result = "error") =>
          rewardsPage.employeePoints = <<>>
    /\ LeaderboardDone =>
          /\ \A e \in DOMAIN db_employees : Cardinality(Shown(e)) = 1
          /\ Len(rewardsPage.employeePoints) = Cardinality(DOMAIN db_employees)
          /\ \A k \in 1..Len(rewardsPage.fetch.rows) :
                LET read == rewardsPage.fetch.rows[k]
                    row == rewardsPage.employeePoints[CHOOSE i \in Shown(read.id) : TRUE]
                IN /\ row.totalPoints =
                         IF read.points # NullRows
                         THEN LedgerTotal(read.id, Len(db_reward_points)) ELSE 0
                   /\ row.completedTasks =
                         IF read.tasks # NullRows THEN CompletedCount(read.id) ELSE 0

\* an inactive employee is listed with the points and the task it has, next
\* to an employee without ledger rows listed with 0
C17_Witness ==
    /\ LeaderboardDone
    /\ \E i, j \in 1..Len(rewardsPage.employeePoints) :
          LET a == rewardsPage.employeePoints[i]
              b == rewardsPage.employeePoints[j]
          IN /\ db_employees[a.id].status = "inactive"
             /\ a.totalPoints = 3 /\ a.completedTasks = 1
             /\ LedgerTotal(b.id, Len(db_reward_points)) = 0 /\ b.totalPoints = 0

\* C17 (as claimed): fetchEmployeePoints returns one row for every employee
\* with the sum of its ledger rows and the number of its completed tasks.
C17_RowPerEmployee ==
    rewardsPage.fetch.pc = "idle" =>
       \A e \in DOMAIN db_employees :
          \E i \in Shown(e) :
             /\ rewardsPage.employeePoints[i].totalPoints =
                   LedgerTotal(e, Len(db_reward_points))
             /\ rewardsPage.employeePoints[i].completedTasks = CompletedCount(e)

Place(q, x) == CHOOSE k \in 1..Len(q) : q[k] = x

\* C18: the leaderboard is in non-increasing order of totalPoints, and rows
\* of equal totalPoints are in the order in which the employees read
\* returned them, in whatever order the reads of the employees completed.
C18_StableDescending ==
    LeaderboardDone =>
       \A i, j \in 1..Len(rewardsPage.employeePoints) :
          LET a == rewardsPage.employeePoints[i]
              b == rewardsPage.employeePoints[j]
          IN i < j =>
                /\ a.totalPoints >= b.totalPoints
                /\ a.totalPoints = b.totalPoints =>
                      Place(rewardsPage.fetch.employees, a.id)
                         < Place(rewardsPage.fetch.employees, b.id)

\* two employees tie with points to their names, and the one the read
\* returned first (the one of the higher id here) is listed first
C18_Witness ==
    /\ LeaderboardDone
    /\ \E i, j \in 1..Len(rewardsPage.employeePoints) :
          LET a == rewardsPage.employeePoints[i]
              b == rewardsPage.employeePoints[j]
          IN /\ i < j
             /\ a.totalPoints = b.totalPoints /\ a.totalPoints > 0
             /\ a.id > b.id

\* ======================================================= the Dashboard page
\* what a read resolves to: { data: rows, error: null } or { data: null, error }
Rows(rows) == [data |-> rows, error |-> FALSE]
NoRows == [data |-> <<>>, error |-> TRUE]

\* data?.length || 0 and data?.filter(...).length || 0
LengthOrZero(read) == IF read.error THEN 0 ELSE Len(read.data)
CountOrZero(read, status) ==
    IF read.error THEN 0 ELSE Len(SelectSeq(read.data, LAMBDA st : st = status))

\* the stats with every employee counted as active
StatsOf_AllActive(employeesRead, projectsRead, tasksRead, rewardsRead) ==
    [totalEmployees |-> LengthOrZero(employeesRead),
     activeEmployees |-> LengthOrZero(employeesRead),
     totalProjects |-> LengthOrZero(projectsRead),
     ongoingProjects |-> CountOrZero(projectsRead, "ongoing"),
     totalTasks |-> LengthOrZero(tasksRead),
     completedTasks |-> CountOrZero(tasksRead, "completed"),
     totalRewardPoints |-> IF rewardsRead.error THEN 0 ELSE SumPoints(rewardsRead.data)]

\* the object given to setStats (lines 51-59)
StatsOf(employeesRead, projectsRead, tasksRead, rewardsRead) ==
    [totalEmployees |-> LengthOrZero(employeesRead),
     activeEmployees |-> CountOrZero(employeesRead, "active"),
     totalProjects |-> LengthOrZero(projectsRead),
     ongoingProjects |-> CountOrZero(projectsRead, "ongoing"),
     totalTasks |-> LengthOrZero(tasksRead),
     completedTasks |-> CountOrZero(tasksRead, "completed"),
     totalRewardPoints |-> IF rewardsRead.error THEN 0 ELSE SumPoints(rewardsRead.data)]

\* useState of stats (lines 13-21)
ZeroStats ==
    [totalEmployees |-> 0, activeEmployees |-> 0, totalProjects |-> 0,
     ongoingProjects |-> 0, totalTasks |-> 0, completedTasks |-> 0,
     totalRewardPoints |-> 0]

\* the component's state on mount: fetchStats is under way
MountedDashboard ==
    [open |-> TRUE, stats |-> ZeroStats, isSendingAlerts |-> FALSE, toast |-> NoToast,
     faults |-> 0,
     fetch |-> [pc |-> "employees", employees |-> NoRows, projects |-> NoRows,
                tasks |-> NoRows],
     alerts |-> [pc |-> "none", runs |-> 0]]

DashboardAnswers == IF dashboard.faults < MaxFaults THEN BOOLEAN ELSE {TRUE}

\* .from("employees").select("status") (lines 31-33)
StatsReadEmployees ==
    /\ dashboard.open /\ dashboard.fetch.pc = "employees"
    /\ \E ok \in DashboardAnswers :
          dashboard' = [dashboard EXCEPT !.fetch.pc = "projects",
              !.faults = IF ok THEN @ ELSE @ + 1,
              !.fetch.employees =
                  IF ok THEN Rows([e \in DOMAIN db_employees |-> db_employees[e].status])
                  ELSE NoRows]
    /\ UNCHANGED <<dbVars, projectsPage, rewardsPage, employeesPage, aiChat, notifierVars>>

\* .from("projects").select("status") (lines 36-38)
StatsReadProjects ==
    /\ dashboard.open /\ dashboard.fetch.pc = "projects"
    /\ \E ok \in DashboardAnswers :
          dashboard' = [dashboard EXCEPT !.fetch.pc = "tasks",
              !.faults = IF ok THEN @ ELSE @ + 1,
              !.fetch.projects =
                  IF ok THEN Rows([p \in DOMAIN db_projects |-> db_projects[p].status])
                  ELSE NoRows]
    /\ UNCHANGED <<dbVars, projectsPage, rewardsPage, employeesPage, aiChat, notifierVars>>

\* .from("tasks").select("status") (lines 41-43)
StatsReadTasks ==
    /\ dashboard.open /\ dashboard.fetch.pc = "tasks"
    /\ \E ok \in DashboardAnswers :
          dashboard' = [dashboard EXCEPT !.fetch.pc = "rewards",
              !.faults = IF ok THEN @ ELSE @ + 1,
              !.fetch.tasks =
                  IF ok THEN Rows([t \in DOMAIN db_tasks |-> db_tasks[t].status])
                  ELSE NoRows]
    /\ UNCHANGED <<dbVars, projectsPage, rewardsPage, employeesPage, aiChat, notifierVars>>

\* .from("reward_points").select("points"), then setStats (lines 46-59); no
\* read's error is looked at and nothing is thrown, so the catch of line 60
\* is not entered
StatsReadRewards ==
    /\ dashboard.open /\ dashboard.fetch.pc = "rewards"
    /\ \E ok \in DashboardAnswers :
          LET rewards == IF ok
                         THEN Rows([k \in DOMAIN db_reward_points |->
                                       db_reward_points[k].points])
                         ELSE NoRows
          IN dashboard' = [dashboard EXCEPT !.fetch.pc = "idle",
                 !.faults = IF ok THEN @ ELSE @ + 1,
                 !.stats = StatsOf(dashboard.fetch.employees, dashboard.fetch.projects,
                                   dashboard.fetch.tasks, rewards)]
    /\ UNCHANGED <<dbVars, projectsPage, rewardsPage, employeesPage, aiChat, notifierVars>>

\* the Dashboard has just been opened on a store of any statuses and ledger
InitDashboard ==
    /\ HandlerInit
    /\ clock = 0
    /\ db_employees \in {f \in EmployeeTables(NumEmployees) : f[1].email = Addr(1)}
    /\ db_projects \in [1..NumProjects -> [status : Statuses, end_date : {MaxDay}]]
    /\ db_project_assignments = {}
    /\ db_tasks \in [1..NumTasks -> [status : TaskStatuses, deadline : {Null},
                                     assigned_to : {Null}]]
    /\ db_reward_points \in Ledgers
    /\ projectsPage = <<>>
    /\ rewardsPage = [open |-> FALSE]
    /\ dashboard = MountedDashboard
    /\ employeesPage = [open |-> FALSE]
    /\ aiChat = [open |-> FALSE]

NextDashboard ==
    \/ StatsReadEmployees
    \/ StatsReadProjects
    \/ StatsReadTasks
    \/ StatsReadRewards

SpecDashboard == InitDashboard /\ [][NextDashboard]_vars

\* ---------------------------------------------------- claims on the Dashboard
StatsDone == dashboard.fetch.pc = "idle"
\* the sum of the points of the ledger rows 1..k
RECURSIVE LedgerSum(_)
LedgerSum(k) == IF k = 0 THEN 0 ELSE LedgerSum(k - 1) + db_reward_points[k].points

CountRows(table, status) == Cardinality({k \in DOMAIN table : table[k].status = status})

\* C19 (as claimed): when a read of fetchStats fails, an error is shown to
\* the user and all seven stats are zero.
C19_FailedReadIsToldAllZero ==
    (StatsDone /\ dashboard.faults > 0) =>
       /\ dashboard.toast # NoToast
       /\ dashboard.stats = ZeroStats

\* C20: when the four reads of fetchStats succeed, the stats are the row
\* counts of employees, projects and tasks, the numbers of active employees,
\* ongoing projects and completed tasks (each at most its total) and the sum
\* of the points of the ledger; and no step of fetchStats writes to the store.
C20_StatsAreCounts ==
    /\ [](( StatsDone /\ dashboard.faults = 0) =>
           /\ dashboard.stats.totalEmployees = Cardinality(DOMAIN db_employees)
           /\ dashboard.stats.activeEmployees = CountRows(db_employees, "active")
           /\ dashboard.stats.totalProjects = Cardinality(DOMAIN db_projects)
           /\ dashboard.stats.ongoingProjects = CountRows(db_projects, "ongoing")
           /\ dashboard.stats.totalTasks = Cardinality(DOMAIN db_tasks)
           /\ dashboard.stats.completedTasks = CountRows(db_tasks, "completed")
           /\ dashboard.stats.totalRewardPoints = LedgerSum(Len(db_reward_points))
           /\ dashboard.stats.activeEmployees <= dashboard.stats.totalEmployees
           /\ dashboard.stats.ongoingProjects <= dashboard.stats.totalProjects
           /\ dashboard.stats.completedTasks <= dashboard.stats.totalTasks)
    /\ [][dbVars' = dbVars]_vars

\* the stats are set from a store with an inactive employee, a completed
\* project, a task not completed and a ledger of two rows at least
C20_Witness ==
    /\ StatsDone /\ dashboard.faults = 0
    /\ dashboard.stats.activeEmployees < dashboard.stats.totalEmployees
    /\ dashboard.stats.ongoingProjects < dashboard.stats.totalProjects
    /\ dashboard.stats.completedTasks < dashboard.stats.totalTasks
    /\ dashboard.stats.totalRewardPoints >= 3

\* ------------------------------------------- the alerts button of the Dashboard
\* the fetch of functions.invoke did not go through (FunctionsFetchError) and the
\* function answered with a status outside 2xx (FunctionsHttpError)
FetchErrorMessage == "Failed to send a request to the Edge Function"
HttpErrorMessage == "Edge Function returned a non-2xx status code"

\* a request starts an instance of the function of its own
FreshInstance ==
    /\ pc' = "idle"
    /\ resendApiKey' = FALSE
    /\ threeDaysFromNow' = Null
    /\ projects' = <<>>
    /\ tasks' = <<>>
    /\ emailsSent' = <<>>
    /\ pidx' = 1
    /\ employees' = <<>>
    /\ eidx' = 1
    /\ tidx' = 1
    /\ employee' = Null
    /\ response' = [kind |-> "none"]
    /\ nowProjects' = Null
    /\ nowTasks' = Null
    /\ storeQueries' = 0
    /\ resolved' = <<>>
    /\ skipped' = <<>>
    /\ sendLog' = <<>>

\* a click on the button, which is disabled while isSendingAlerts (lines
\* 126-128): setIsSendingAlerts(true) and the request leaves (lines 65-67)
SendDeadlineAlerts ==
    /\ dashboard.open /\ ~dashboard.isSendingAlerts
    /\ dashboard.alerts.runs < MaxAlerts
    /\ dashboard' = [dashboard EXCEPT !.isSendingAlerts = TRUE, !.toast = NoToast,
                        !.alerts = [pc |-> "invoked", runs |-> @.runs + 1]]
    /\ FreshInstance
    /\ UNCHANGED <<dbVars, projectsPage, rewardsPage, employeesPage, aiChat, clock>>

\* the request reaches the function
AlertsStart ==
    /\ dashboard.open /\ dashboard.alerts.pc = "invoked"
    /\ Start

\* the request does not reach the function: invoke resolves to { error }, which
\* is thrown (line 69) and caught (lines 75-80); finally (lines 81-83)
AlertsFetchError ==
    /\ dashboard.open /\ dashboard.alerts.pc = "invoked"
    /\ pc = "idle"
    /\ dashboard' = [dashboard EXCEPT !.isSendingAlerts = FALSE,
                        !.toast = Toast("Error sending alerts", FetchErrorMessage),
                        !.alerts.pc = "none"]
    /\ UNCHANGED <<dbVars, projectsPage, rewardsPage, employeesPage, aiChat, notifierVars>>

\* AlertsSettle without the finally block: isSendingAlerts is reset at the end
\* of the try block only
AlertsSettle_NoFinally ==
    /\ dashboard.open /\ dashboard.alerts.pc = "invoked"
    /\ pc = "done"
    /\ IF response.status = 200
       THEN dashboard' = [dashboard EXCEPT !.isSendingAlerts = FALSE,
                             !.toast = Toast("Deadline alerts sent!", response.message),
                             !.alerts.pc = "none"]
       ELSE dashboard' = [dashboard EXCEPT
                             !.toast = Toast("Error sending alerts", HttpErrorMessage),
                             !.alerts.pc = "none"]
    /\ UNCHANGED <<dbVars, projectsPage, rewardsPage, employeesPage, aiChat, notifierVars>>

\* the function has answered: invoke resolves to { data } for a 2xx status
\* (lines 71-74, data.message is never empty) and to { error } otherwise (lines
\* 69, 75-80); finally (lines 81-83)
AlertsSettle ==
    /\ dashboard.open /\ dashboard.alerts.pc = "invoked"
    /\ pc = "done"
    /\ IF response.status = 200
       THEN dashboard' = [dashboard EXCEPT !.isSendingAlerts = FALSE,
                             !.toast = Toast("Deadline alerts sent!", response.message),
                             !.alerts.pc = "none"]
       ELSE dashboard' = [dashboard EXCEPT !.isSendingAlerts = FALSE,
                             !.toast = Toast("Error sending alerts", HttpErrorMessage),
                             !.alerts.pc = "none"]
    /\ UNCHANGED <<dbVars, projectsPage, rewardsPage, employeesPage, aiChat, notifierVars>>

\* the Dashboard is open, its stats are fetched, and the store holds items due
\* tomorrow
InitAlerts ==
    /\ HandlerInit
    /\ clock = MaxClock
    /\ db_employees \in EmployeeTables(NumEmployees)
    /\ db_projects = [p \in 1..NumProjects |->
                         [status |-> "ongoing", end_date |-> DateOf(MaxClock) + 1]]
    /\ db_project_assignments \in {{}, {<<1, 1>>}}
    /\ db_tasks \in [1..NumTasks ->
                      [status : {"pending"}, deadline : {MaxClock + DayTicks},
                       assigned_to : {Null, 1}]]
    /\ db_reward_points = <<>>
    /\ projectsPage = <<>>
    /\ rewardsPage = [open |-> FALSE]
    /\ dashboard = [MountedDashboard EXCEPT !.fetch.pc = "idle"]
    /\ employeesPage = [open |-> FALSE]
    /\ aiChat = [open |-> FALSE]

NextAlerts ==
    \/ SendDeadlineAlerts
    \/ AlertsStart
    \/ AlertsFetchError
    \/ AlertsSettle
    \/ QueryProjects
    \/ QueryTasks
    \/ ProjectLoopEnd
    \/ ProjectNoAssignments
    \/ ProjectLookupEmployees
    \/ SendProjectEmail
    \/ TaskUnassigned
    \/ TaskLookupEmployee
    \/ SendTaskEmail
    \/ Respond

SpecAlerts == InitAlerts /\ [][NextAlerts]_vars

\* C28: on the Dashboard isSendingAlerts is true exactly while an invocation
\* started from it is pending, and the function runs only then; an invocation
\* starts only while it is false and sets it; when the invocation ends, with
\* data or with an error, it is false again and the toast tells which.
InvocationPending == dashboard.alerts.pc = "invoked"
InvocationStarts == dashboard.alerts.runs' = dashboard.alerts.runs + 1
InvocationEnds == InvocationPending /\ ~InvocationPending'
C28_SendingWhilePending ==
    /\ [](dashboard.open =>
             /\ dashboard.isSendingAlerts <=> InvocationPending
             /\ pc \notin {"idle", "done"} => dashboard.isSendingAlerts)
    /\ [][InvocationStarts =>
             ~dashboard.isSendingAlerts /\ dashboard.isSendingAlerts']_vars
    /\ [][InvocationEnds =>
             /\ ~dashboard.isSendingAlerts'
             /\ dashboard.toast'.title =
                   IF pc = "done" /\ response.status = 200
                   THEN "Deadline alerts sent!" ELSE "Error sending alerts"]_vars

\* the second invocation from this Dashboard, started after the first had
\* ended, has ended with an error answer of the function and the flag is down
C28_Witness ==
    /\ dashboard.open /\ ~dashboard.isSendingAlerts
    /\ dashboard.alerts.runs = 2
    /\ pc = "done" /\ response.status = 500
    /\ dashboard.toast.title = "Error sending alerts"

\* ======================================================= the Employees page
\* the initial formData of useState (lines 46-51); <<>> is the empty text
EmptyEmployeeForm == [name |-> <<>>, email |-> <<>>, department |-> <<>>, status |-> "active"]

\* the component's state on mount: fetchEmployees is under way
MountedEmployeesPage ==
    [open |-> TRUE, employees |-> <<>>, isDialogOpen |-> FALSE, editingEmployee |-> Null,
     formData |-> EmptyEmployeeForm, toast |-> NoToast, fetch |-> "pending",
     runs |-> 0, faults |-> 0, submit |-> "none"]

EmployeesErrors == IF employeesPage.faults < MaxFaults THEN {NoError, NetworkError}
                   ELSE {NoError}

\* the one department of the model: the column is the same in every row and
\* is kept out of the store
Department == <<"dept">>

\* select("*") of one employee
FullEmployeeRow(e) ==
    [id |-> e, name |-> db_employees[e].name, email |-> db_employees[e].email,
     department |-> Department, status |-> db_employees[e].status]

\* fetchEmployees (lines 57-72): .select("*").order("created_at", desc)
EmployeesFetch ==
    /\ employeesPage.open /\ employeesPage.fetch = "pending"
    /\ \E error \in EmployeesErrors :
          IF error = NoError
          THEN LET ids == Descending(DOMAIN db_employees)
               IN employeesPage' = [employeesPage EXCEPT !.fetch = "ok",
                      !.employees = [i \in 1..Len(ids) |-> FullEmployeeRow(ids[i])]]
          ELSE employeesPage' = [employeesPage EXCEPT !.fetch = "error",
                      !.faults = @ + 1,
                      !.toast = Toast("Error fetching employees", error)]
    /\ UNCHANGED <<dbVars, projectsPage, rewardsPage, dashboard, aiChat, notifierVars>>

\* no request of the page is under way
EmployeesSettled == employeesPage.open /\ employeesPage.fetch # "pending"

\* the Add Employee button (lines 157-165): its onClick, then the trigger
OpenAddDialog ==
    /\ EmployeesSettled /\ ~employeesPage.isDialogOpen
    /\ employeesPage' = [employeesPage EXCEPT !.editingEmployee = Null,
           !.formData = EmptyEmployeeForm, !.isDialogOpen = TRUE,
           !.toast = NoToast, !.submit = "none", !.fetch = "idle"]
    /\ UNCHANGED <<dbVars, projectsPage, rewardsPage, dashboard, aiChat, notifierVars>>

\* openEditDialog(employee) (lines 136-145), with a row of the list shown
OpenEditDialog(i) ==
    /\ EmployeesSettled /\ ~employeesPage.isDialogOpen
    /\ i \in 1..Len(employeesPage.employees)
    /\ LET row == employeesPage.employees[i]
       IN employeesPage' = [employeesPage EXCEPT !.editingEmployee = row.id,
              !.formData = [name |-> row.name, email |-> row.email,
                            department |-> row.department, status |-> row.status],
              !.isDialogOpen = TRUE,
              !.toast = NoToast, !.submit = "none", !.fetch = "idle"]
    /\ UNCHANGED <<dbVars, projectsPage, rewardsPage, dashboard, aiChat, notifierVars>>

\* onOpenChange(false) of the dialog (line 156)
CloseEmployeeDialog ==
    /\ EmployeesSettled /\ employeesPage.isDialogOpen
    /\ employeesPage' = [employeesPage EXCEPT !.isDialogOpen = FALSE,
           !.toast = NoToast, !.submit = "none", !.fetch = "idle"]
    /\ UNCHANGED <<dbVars, projectsPage, rewardsPage, dashboard, aiChat, notifierVars>>

\* what the operator types: the data of a new employee, or the address of
\* the first employee under that name
EmployeeForms ==
    [name : {NameOf(NumEmployees)}, email : {Addr(1), Addr(NumEmployees)},
     department : {Department}, status : {"active", "inactive"}]

\* the form's inputs: setFormData({ ...formData, ... }) (lines 179-222)
SetEmployeeForm ==
    /\ EmployeesSettled /\ employeesPage.isDialogOpen
    /\ \E form \in EmployeeForms :
          /\ form # employeesPage.formData
          /\ employeesPage' = [employeesPage EXCEPT !.formData = form,
                 !.toast = NoToast, !.submit = "none", !.fetch = "idle"]
    /\ UNCHANGED <<dbVars, projectsPage, rewardsPage, dashboard, aiChat, notifierVars>>

\* the rows other than `id` that hold the address: email is UNIQUE
AddressTaken(email, id) ==
    \E e \in DOMAIN db_employees : e # id /\ db_employees[e].email = email

\* the columns of the employees table that the model keeps
StoredEmployee(form) == [name |-> form.name, email |-> form.email, status |-> form.status]

\* handleSubmit (lines 74-112): the update of the edited employee or the
\* insert of a new one, then the success path with its fetchEmployees, or
\* the catch
EmployeeSubmit ==
    /\ EmployeesSettled /\ employeesPage.isDialogOpen
    /\ employeesPage.formData.name # <<>> /\ employeesPage.formData.email # <<>>
    /\ employeesPage.formData.department # <<>>
    /\ employeesPage.runs < MaxRuns
    /\ LET form == employeesPage.formData
           edited == employeesPage.editingEmployee
       IN /\ edited = Null => Len(db_employees) < NumEmployees
          /\ \E error \in IF AddressTaken(form.email, edited) THEN {UniqueViolation}
                          ELSE EmployeesErrors :
                IF error = NoError
                THEN /\ db_employees' =
                           IF edited # Null
                           THEN [db_employees EXCEPT ![edited] = StoredEmployee(form)]
                           ELSE Append(db_employees, StoredEmployee(form))
                     /\ employeesPage' = [employeesPage EXCEPT
                            !.runs = @ + 1, !.submit = "success",
                            !.toast = Toast(IF edited # Null
                                            THEN "Employee updated successfully"
                                            ELSE "Employee added successfully", ""),
                            !.isDialogOpen = FALSE,
                            !.editingEmployee = Null,
                            !.formData = EmptyEmployeeForm,
                            !.fetch = "pending"]
                ELSE /\ employeesPage' = [employeesPage EXCEPT
                            !.runs = @ + 1, !.submit = "error",
                            !.faults = IF error = NetworkError THEN @ + 1 ELSE @,
                            !.fetch = "idle",
                            !.toast = Toast("Error", error)]
                     /\ UNCHANGED db_employees
    /\ UNCHANGED <<db_projects, db_project_assignments, db_tasks, db_reward_points,
                   projectsPage, rewardsPage, dashboard, aiChat, notifierVars>>

\* toggleEmployeeStatus(employee) (lines 114-134), with a row of the list shown
ToggleEmployeeStatus(i) ==
    /\ EmployeesSettled /\ ~employeesPage.isDialogOpen
    /\ i \in 1..Len(employeesPage.employees)
    /\ employeesPage.runs < MaxRuns
    /\ LET row == employeesPage.employees[i]
           newStatus == IF row.status = "active" THEN "inactive" ELSE "active"
       IN \E error \in EmployeesErrors :
             IF error = NoError
             THEN /\ db_employees' = [db_employees EXCEPT ![row.id].status = newStatus]
                  /\ employeesPage' = [employeesPage EXCEPT
                         !.runs = @ + 1, !.submit = "none",
                         !.toast = Toast(IF newStatus = "active" THEN "Employee activated"
                                         ELSE "Employee deactivated", ""),
                         !.fetch = "pending"]
             ELSE /\ employeesPage' = [employeesPage EXCEPT
                         !.runs = @ + 1, !.submit = "none",
                         !.faults = @ + 1,
                         !.fetch = "idle",
                         !.toast = Toast("Error updating status", error)]
                  /\ UNCHANGED db_employees
    /\ UNCHANGED <<db_projects, db_project_assignments, db_tasks, db_reward_points,
                   projectsPage, rewardsPage, dashboard, aiChat, notifierVars>>

\* ============================================== the forms and the ledger
\* the ledgers of fewer than MaxRewards rows over the employees 1..n
LedgersOf(n) == {l \in Ledgers : /\ Len(l) < MaxRewards
                                 /\ \A k \in 1..Len(l) : l[k].employee_id <= n}

\* the Rewards page or the Employees page has just been opened on a store
\* with one employee less than it has room for and any ledger
InitLedger ==
    /\ HandlerInit
    /\ clock = 0
    /\ db_employees \in {f \in EmployeeTables(NumEmployees - 1) : f[1].email = Addr(1)}
    /\ db_projects = <<>>
    /\ db_project_assignments = {}
    /\ db_tasks = [t \in 1..1 |-> [status |-> "completed", deadline |-> Null,
                                   assigned_to |-> 1]]
    /\ db_reward_points \in LedgersOf(NumEmployees - 1)
    /\ projectsPage = <<>>
    /\ dashboard = [open |-> FALSE]
    /\ aiChat = [open |-> FALSE]
    /\ \/ rewardsPage = MountedRewardsPage /\ employeesPage = [open |-> FALSE]
       \/ rewardsPage = [open |-> FALSE] /\ employeesPage = MountedEmployeesPage

NextLedger ==
    \/ RewardsFetchEmployees
    \/ RewardsReadEmployees
    \/ \E i \in 1..NumEmployees : RewardsReadPoints(i)
    \/ \E i \in 1..NumEmployees : RewardsReadTasks(i)
    \/ RewardsSort
    \/ SetAwardDialogOpen
    \/ SetAwardForm
    \/ AwardSubmit
    \/ EmployeesFetch
    \/ OpenAddDialog
    \/ \E i \in 1..NumEmployees : OpenEditDialog(i)
    \/ CloseEmployeeDialog
    \/ SetEmployeeForm
    \/ EmployeeSubmit
    \/ \E i \in 1..NumEmployees : ToggleEmployeeStatus(i)

SpecLedger == InitLedger /\ [][NextLedger]_vars

\* one of the three pages with a form has just been opened
InitForms == InitProjects \/ InitLedger

NextForms == NextProjects \/ NextLedger

SpecForms == InitForms /\ [][NextForms]_vars

\* ============================================================ the AI chat
\* a text is the sequence of its characters; a word stands for its letters
Space == " "
Greeting == <<"Hello!">>
Response == <<"response">>

\* what the operator may have in the input box
Inputs == {<<>>, <<Space>>, <<"q">>, <<Space, "q">>, <<"q", Space>>, <<"q", "q">>}

\* String.prototype.trim
RECURSIVE TrimStart(_)
TrimStart(text) ==
    IF Len(text) > 0 /\ Head(text) = Space THEN TrimStart(Tail(text)) ELSE text

RECURSIVE TrimEnd(_)
TrimEnd(text) ==
    IF Len(text) > 0 /\ text[Len(text)] = Space
    THEN TrimEnd(SubSeq(text, 1, Len(text) - 1)) ELSE text

Trim(text) == TrimEnd(TrimStart(text))

\* useState of messages, input and isLoading (lines 17-24); requests holds
\* the bodies of the invocations of "ai-chat" that have not settled yet
MountedAIChat ==
    [open |-> TRUE,
     messages |-> <<[role |-> "assistant", content |-> Greeting]>>,
     input |-> <<>>, isLoading |-> FALSE, toast |-> NoToast,
     requests |-> <<>>, lastCall |-> "none"]

\* onChange of the input (line 133), which is disabled while isLoading
SetInput ==
    /\ aiChat.open /\ ~aiChat.isLoading
    /\ \E text \in Inputs :
          /\ text # aiChat.input
          /\ aiChat' = [aiChat EXCEPT !.input = text, !.lastCall = "none"]
    /\ UNCHANGED <<dbVars, projectsPage, rewardsPage, dashboard, employeesPage, notifierVars>>

\* sendMessage up to its await (lines 26-39), called from the button or the
\* Enter key
SendMessage ==
    /\ aiChat.open
    /\ IF Len(Trim(aiChat.input)) = 0 \/ aiChat.isLoading
       THEN aiChat' = [aiChat EXCEPT !.lastCall = "ignored"]
       ELSE /\ Len(aiChat.messages) + 2 <= MaxMessages
            /\ LET userMessage == [role |-> "user", content |-> aiChat.input]
               IN aiChat' = [aiChat EXCEPT
                      !.messages = Append(@, userMessage),
                      !.input = <<>>,
                      !.isLoading = TRUE,
                      !.requests = Append(@, [messages |->
                                                 Append(aiChat.messages, userMessage)]),
                      !.lastCall = "accepted"]
    /\ UNCHANGED <<dbVars, projectsPage, rewardsPage, dashboard, employeesPage, notifierVars>>

\* how an invocation settles: with data, with an error that has a message,
\* with an error that has none
ChatOutcomes == {"data", "error", "error without message"}

\* ChatSettles with setIsLoading(false) on the success path only
ChatSettles_NoFinally(k) ==
    /\ aiChat.open
    /\ k \in 1..Len(aiChat.requests)
    /\ \E outcome \in ChatOutcomes :
          LET rest == [i \in 1..(Len(aiChat.requests) - 1) |->
                          aiChat.requests[IF i < k THEN i ELSE i + 1]]
          IN IF outcome = "data"
             THEN aiChat' = [aiChat EXCEPT
                      !.messages = Append(@, [role |-> "assistant", content |-> Response]),
                      !.isLoading = FALSE, !.requests = rest, !.lastCall = "none"]
             ELSE aiChat' = [aiChat EXCEPT
                      !.toast = Toast("Error",
                                      IF outcome = "error" THEN NetworkError
                                      ELSE "Failed to get response from AI"),
                      !.requests = rest, !.lastCall = "none"]
    /\ UNCHANGED <<dbVars, projectsPage, rewardsPage, dashboard, employeesPage, notifierVars>>

\* sendMessage after its await (lines 41-57): the reply is appended, or the
\* catch shows the toast; finally isLoading is false
ChatSettles(k) ==
    /\ aiChat.open
    /\ k \in 1..Len(aiChat.requests)
    /\ \E outcome \in ChatOutcomes :
          LET rest == [i \in 1..(Len(aiChat.requests) - 1) |->
                          aiChat.requests[IF i < k THEN i ELSE i + 1]]
          IN IF outcome = "data"
             THEN aiChat' = [aiChat EXCEPT
                      !.messages = Append(@, [role |-> "assistant", content |-> Response]),
                      !.isLoading = FALSE, !.requests = rest, !.lastCall = "none"]
             ELSE aiChat' = [aiChat EXCEPT
                      !.toast = Toast("Error",
                                      IF outcome = "error" THEN NetworkError
                                      ELSE "Failed to get response from AI"),
                      !.isLoading = FALSE, !.requests = rest, !.lastCall = "none"]
    /\ UNCHANGED <<dbVars, projectsPage, rewardsPage, dashboard, employeesPage, notifierVars>>

\* the AI chat has just been opened
InitChat ==
    /\ HandlerInit
    /\ clock = 0
    /\ db_employees = <<>>
    /\ db_projects = <<>>
    /\ db_project_assignments = {}
    /\ db_tasks = <<>>
    /\ db_reward_points = <<>>
    /\ projectsPage = <<>>
    /\ rewardsPage = [open |-> FALSE]
    /\ dashboard = [open |-> FALSE]
    /\ employeesPage = [open |-> FALSE]
    /\ aiChat = MountedAIChat

NextChat ==
    \/ SetInput
    \/ SendMessage
    \/ \E k \in 1..MaxMessages : ChatSettles(k)

SpecChat == InitChat /\ [][NextChat]_vars

\* ------------------------------------------------------ claims on the AI chat
IsPrefix(q, r) == Len(q) <= Len(r) /\ \A i \in 1..Len(q) : q[i] = r[i]

\* C25: an accepted sendMessage puts the user message behind the history and
\* sends the history with it; a call with a blank input or while a request
\* is under way changes nothing; at most one request is under way, and
\* isLoading says whether one is; the history only grows; when the request
\* settles, isLoading is false and either exactly one assistant message was
\* appended, or the history stayed as it was, the user message in it, and
\* the error toast is shown.
C25_OneRequestHistoryGrows ==
    /\ [](Len(aiChat.requests) <= 1 /\ aiChat.isLoading = (Len(aiChat.requests) = 1))
    /\ [][/\ IsPrefix(aiChat.messages, aiChat'.messages)
          /\ (aiChat'.lastCall # "none" /\ aiChat' # aiChat) =>
                IF Len(Trim(aiChat.input)) = 0 \/ aiChat.isLoading
                THEN aiChat' = [aiChat EXCEPT !.lastCall = "ignored"]
                ELSE LET userMessage == [role |-> "user", content |-> aiChat.input]
                     IN /\ aiChat'.lastCall = "accepted"
                        /\ aiChat'.messages = Append(aiChat.messages, userMessage)
                        /\ aiChat'.requests =
                              <<[messages |-> Append(aiChat.messages, userMessage)]>>
                        /\ aiChat'.isLoading
          /\ Len(aiChat'.requests) < Len(aiChat.requests) =>
                /\ ~aiChat'.isLoading
                /\ aiChat.messages[Len(aiChat.messages)].role = "user"
                /\ \/ /\ aiChat'.messages =
                            Append(aiChat.messages,
                                   [role |-> "assistant", content |-> Response])
                      /\ aiChat'.toast = aiChat.toast
                   \/ /\ aiChat'.messages = aiChat.messages
                      /\ aiChat'.toast.title = "Error"
                      /\ aiChat'.toast.description # ""
         ]_vars

\* a question was answered and the next one failed: its user message is the
\* last of the history and the error is shown
C25_Witness ==
    /\ aiChat.open /\ ~aiChat.isLoading
    /\ Len(aiChat.messages) = 4
    /\ aiChat.messages[3].role = "assistant"
    /\ aiChat.messages[4] = [role |-> "user", content |-> <<"q", Space>>]
    /\ aiChat.toast = Toast("Error", "Failed to get response from AI")

\* ------------------------------------------- claims on the forms and the ledger
\* the messages of the errors a store request may answer
ErrorMessages == {NetworkError, DateSyntaxError, UniqueViolation}

\* a step that ends the create-project handleSubmit of session s
CreateEnds(s) ==
    \/ projectsPage[s].submit.pc = "assignments"
    \/ /\ projectsPage[s].isDialogOpen
       /\ projectsPage'[s].runs # projectsPage[s].runs
       /\ projectsPage'[s].submit.pc = "idle"

\* the create-project form: a failed submission keeps the dialog, the form
\* and the selection, shows the message and starts no fetch; the handler
\* closes the dialog or resets the form only on success
CreateFormKept ==
    \A s \in Sessions :
       LET page == projectsPage[s]
           after == projectsPage'[s]
       IN CreateEnds(s) =>
             /\ after.submit.result = "error" =>
                   /\ after.isDialogOpen
                   /\ after.formData = page.formData
                   /\ after.selectedEmployees = page.selectedEmployees
                   /\ after.toast.title = "Error"
                   /\ after.toast.description \in ErrorMessages
                   /\ after.fetch.pc = "idle"
             /\ (~after.isDialogOpen \/ after.formData # page.formData) =>
                   after.submit.result = "success"

\* the assign dialog: a submission whose delete or insert the store refused
\* keeps the dialog and the selection, shows the message and starts no
\* fetch; the handler closes the dialog only when both were accepted
AssignFormKept ==
    \A s \in Sessions :
       LET page == projectsPage[s]
           after == projectsPage'[s]
       IN page.assign.pc = "insert" =>
             /\ (~page.assign.deleted \/ after.assign.result = "error") =>
                   /\ after.assignDialogOpen
                   /\ after.selectedProject = page.selectedProject
                   /\ after.selectedEmployees = page.selectedEmployees
                   /\ after.toast.title = "Error assigning employees"
                   /\ after.toast.description \in ErrorMessages
                   /\ after.fetch.pc = "idle"
             /\ ~after.assignDialogOpen =>
                   page.assign.deleted /\ after.assign.result = "success"

\* the employee form (add and update)
EmployeeFormKept ==
    (/\ employeesPage.open /\ employeesPage.isDialogOpen
     /\ employeesPage'.runs # employeesPage.runs) =>
       /\ employeesPage'.submit = "error" =>
             /\ employeesPage'.isDialogOpen
             /\ employeesPage'.formData = employeesPage.formData
             /\ employeesPage'.editingEmployee = employeesPage.editingEmployee
             /\ employeesPage'.toast.title = "Error"
             /\ employeesPage'.toast.description \in ErrorMessages
             /\ employeesPage'.fetch # "pending"
       /\ (~employeesPage'.isDialogOpen
             \/ employeesPage'.formData # employeesPage.formData) =>
             employeesPage'.submit = "success"

\* the award form
AwardFormKept ==
    (/\ rewardsPage.open /\ rewardsPage.isDialogOpen
     /\ rewardsPage'.runs # rewardsPage.runs) =>
       /\ rewardsPage'.submit = "error" =>
             /\ rewardsPage'.isDialogOpen
             /\ rewardsPage'.formData = rewardsPage.formData
             /\ rewardsPage'.toast.title = "Error"
             /\ rewardsPage'.toast.description \in ErrorMessages
             /\ rewardsPage'.fetch.pc = "idle"
       /\ (~rewardsPage'.isDialogOpen \/ rewardsPage'.formData # rewardsPage.formData) =>
             rewardsPage'.submit = "success"

\* C21 (as claimed): when a submission of the employee form, the
\* create-project form, the award form or the assign dialog fails at the
\* store, the dialog stays open, the form data and the selection are kept,
\* the error message is shown and no list is fetched; a handler closes its
\* dialog and resets its form only when every request of the submission
\* was accepted.
C21_FailedSubmitKeepsDialog ==
    [][CreateFormKept /\ AssignFormKept /\ EmployeeFormKept /\ AwardFormKept]_vars

\* the award form's handleSubmit ends in this step, with the given outcome
AwardEnds(outcome) ==
    /\ rewardsPage.open
    /\ rewardsPage.runs # rewardsPage'.runs
    /\ rewardsPage'.submit = outcome

\* C22: the reward ledger is append-only.  In every step of the Rewards and
\* the Employees page every row of the ledger stays at its place with its
\* employee_id, points and reason; a successful award adds exactly one row,
\* the one of the form; a failed award adds none; and no other step changes
\* the ledger.
C22_LedgerAppendOnly ==
    [][/\ Len(db_reward_points') >= Len(db_reward_points)
       /\ \A k \in 1..Len(db_reward_points) : db_reward_points'[k] = db_reward_points[k]
       /\ AwardEnds("success") =>
             /\ Len(db_reward_points') = Len(db_reward_points) + 1
             /\ db_reward_points'[Len(db_reward_points')] =
                   [employee_id |-> rewardsPage.formData.employee_id,
                    points |-> ParseInt(rewardsPage.formData.points),
                    reason |-> rewardsPage.formData.reason]
       /\ AwardEnds("error") => db_reward_points' = db_reward_points
       /\ ~(AwardEnds("success") \/ AwardEnds("error")) =>
             db_reward_points' = db_reward_points
      ]_vars

\* a successful award has put its row behind the two rows of earlier awards
C22_Witness ==
    /\ rewardsPage.open /\ rewardsPage.submit = "success"
    /\ Len(db_reward_points) = 3
    /\ db_reward_points[1].reason = "earlier" /\ db_reward_points[1].points = 2
    /\ db_reward_points[3].reason = "well done"

====
